---- MODULE Spec2Model ----
(***************************************************************************)
(* Session authentication, registration and the bounded memory window of   *)
(* the Mangrat backends.  The repository holds several near-duplicate      *)
(* servers; the variable "deployment" says which one is running:           *)
(*   "strict"         part_002 (= part_000:329-573): bcrypt, 24 h sessions,*)
(*                    authMiddleware answers 401, sessions.token UNIQUE    *)
(*   "strictNoUnique" part_000:134-327: the same server, but its sessions  *)
(*                    table has no UNIQUE constraint on token              *)
(*   "memory"         part_001: plaintext passwords, 7 day sessions,       *)
(*                    authMiddleware never answers itself, memories table  *)
(*   "open"           server.js:1-232: plaintext passwords, no sessions and *)
(*                    no middleware, GET /api/memories, and a start that    *)
(*                    drops every table                                     *)
(*   "ask"            part_000:575-646: POST /api/ask answers a question    *)
(*                    from the context the page sends                       *)
(*   "faq", "faqNoDsn", "faqNoToken"                                        *)
(*                    server.js:234-332: POST /api/ask looks the question   *)
(*                    up in the faq table first; started with both          *)
(*                    MYSQL_DSN and HF_TOKEN, without MYSQL_DSN, without    *)
(*                    HF_TOKEN                                              *)
(* The first four are versions of one service over one data base: Deploy    *)
(* stops the running one and starts another (or the same one again).  The   *)
(* /api/ask servers are programs of their own.                              *)
(* Time is counted in hours.  A handler is cut at its awaits on the data    *)
(* base and on the text-generation service: one action per database        *)
(* statement (with the synchronous code that follows it) or upstream call. *)
(***************************************************************************)
EXTENDS Integers, Sequences, FiniteSets, TLC

\* ---------------------------------------------------------------- bounds
MaxInFlight == 1
MaxTokens == 2
MaxSessions == 2
MaxTicks == 2
MaxMemoryId == 4
MaxLimit == 3
MaxConcurrent == 2

\* ------------------------------------------------------ program constants
TTLStrictHours == 24
TTLMemoryHours == 168
ChatMemoryLimit == 10
BasicMaxNewTokens == 200
PremiumMaxNewTokens == 512

\* ------------------------------------------------------------ input data
Names == {"Ana"}
EmailList == <<"ana@x.com", "bob@x.com">>
Emails == {EmailList[i] : i \in DOMAIN EmailList}
Passwords == {"secret"}
WrongPasswords == {"hunter2"}
Messages == {"Hello", "Again"}
ReplyText == "Bonjour"
DbOutcomes == {"ok", "error"}
UpstreamOutcomes == {"array", "object", "empty", "fail"}

\* A session token is an opaque string; <<>> is the absent (falsy) cookie and
\* <<0>> a value the generator never returns (a token the server never issued).
TokenOf(i) == <<i>>
NoToken == <<>>
ForgedToken == TokenOf(0)
Tokens == {TokenOf(i) : i \in 1..MaxTokens}

NoUser == [id |-> 0, name |-> "", email |-> "", plan |-> ""]

VARIABLES
  deployment,   \* which server of the repository is running
  rng,          \* "fresh": the token generator never repeats; "any": no assumption
  now,          \* the clock, in hours
  users,        \* table users: sequence of rows in insertion (id) order
  sessions,     \* table sessions: sequence of rows in insertion order
  memories,     \* table memories: sequence of rows in insertion (id) order
  memAutoInc,   \* AUTO_INCREMENT counter of memories.id
  issued,       \* history: every token a login has inserted
  loggedOut,    \* history: every issued token whose logout was answered 200
  chatStats,    \* table chat_stats: sequence of rows
  userSettings, \* table user_settings: the user_id of each row
  cleared,      \* history: the users whose clear-memory was answered 200 and
                \* who have started no chat since
  reqs,         \* the requests in flight, one per slot
  ev            \* history: what the last step did (the response it sent)

vars == <<deployment, rng, now, users, sessions, memories, memAutoInc,
          issued, loggedOut, chatStats, userSettings, cleared, reqs, ev>>

Slots == DOMAIN reqs

\* ------------------------------------------------------- password storage
\* bcrypt.hash(password, 10): a one-way digest, never the plaintext itself.
bcryptHash(password) == [hashed |-> TRUE, of |-> password]
\* The plaintext variants store the submitted string as it is.
plainStore(password) == [hashed |-> FALSE, of |-> password]
\* bcrypt.compare(password, stored): false for anything that is no digest of it.
bcryptCompare(password, stored) == stored.hashed /\ stored.of = password
\* SQL "password = ?" against the stored column.
sqlPasswordEquals(password, stored) == stored = plainStore(password)

IsStrict == deployment \in {"strict", "strictNoUnique"}

StoredPassword(password) ==
  IF IsStrict THEN bcryptHash(password) ELSE plainStore(password)

\* Variant: the result of the comparison is not awaited, so it is truthy.
PasswordUnchecked(password, stored) == TRUE

\* The password check of POST /api/login.
PasswordMatches(password, stored) ==
  IF IsStrict THEN bcryptCompare(password, stored)
  ELSE sqlPasswordEquals(password, stored)

\* ------------------------------------------------------------ the tables
Range(s) == {s[i] : i \in DOMAIN s}

UsersByEmail(email) == {u \in Range(users) : u.email = email}

UserById(id) == CHOOSE u \in Range(users) : u.id = id

Summary(u) == [id |-> u.id, name |-> u.name, email |-> u.email, plan |-> u.plan]

\* sessions.token is PRIMARY KEY (part_001) or UNIQUE (part_000:386); the table
\* of part_000:182-190 has neither.
TokenIsUnique == deployment # "strictNoUnique"

TTL == IF IsStrict THEN TTLStrictHours ELSE TTLMemoryHours

\* The clock advances by half a time-to-live at a time.
TickHours == TTL \div 2

\* expires_at DATETIME: the value of a row stored without an expiry (NULL).
NoExpiry == -1

\* part_001 selects "s.expires_at IS NULL OR s.expires_at > NOW()"; in the
\* other servers the column is NOT NULL and the statement has no such branch.
NullExpiryAccepted(s) == ~IsStrict /\ s.expires_at = NoExpiry

\* Variant: a session still counts at the instant it expires (>=).
ValidRowsInclusive(token) ==
  {s \in Range(sessions) :
     /\ s.token = token
     /\ NullExpiryAccepted(s) \/ s.expires_at >= now
     /\ \E u \in Range(users) : u.id = s.user_id}

\* SELECT ... FROM sessions s JOIN users u ON s.user_id = u.id
\* WHERE s.token = ? AND s.expires_at > NOW()
ValidRows(token) ==
  {s \in Range(sessions) :
     /\ s.token = token
     /\ NullExpiryAccepted(s) \/ s.expires_at > now
     /\ \E u \in Range(users) : u.id = s.user_id}

\* ------------------------------------------------------------- requests
\* The result of the faq lookup: null, or the answer column of the row.
NoAnswer == <<>>

Idle == [op |-> "idle", pc |-> "idle", token |-> NoToken, user |-> NoUser,
         message |-> "", mem |-> <<>>, prompt |-> <<>>, aiText |-> "",
         password |-> "", conn |-> "none", answer |-> NoAnswer]

\* The prompt, as the sequence of its lines (without the accents):
\* `${systemPrefix}\n\nMemoire:\n${memoryText}\n\nUtilisateur: ${message}\n\nReponse:`
\* with memoryText = mem.map(m => `${m.role}: ${m.content}`).join("\n");
\* part_002 sends the message alone.
systemPrefix == "Tu es Mangrat v4omini, assistant utile. Reponds en francais."

renderMemory(m) == m.role \o ": " \o m.content

memoryText(mem) ==
  IF mem = <<>> THEN <<"">> ELSE [i \in 1..Len(mem) |-> renderMemory(mem[i])]

\* Variant: the template is filled with an empty memoryText.
buildPromptNoMemory(mem, message) ==
  IF IsStrict THEN <<message>>
  ELSE <<systemPrefix, "", "Memoire:", "">>
       \o <<"", "Utilisateur: " \o message, "", "Reponse:">>

buildPrompt(mem, message) ==
  IF IsStrict THEN <<message>>
  ELSE <<systemPrefix, "", "Memoire:">> \o memoryText(mem)
       \o <<"", "Utilisateur: " \o message, "", "Reponse:">>

\* A request as its handler starts: a chat that reads no memory has its
\* prompt at once.
Request(op, pc, token, user, message) ==
  [op |-> op, pc |-> pc, token |-> token, user |-> user,
   message |-> message, mem |-> <<>>,
   prompt |-> IF op = "chat" /\ pc = "upstream"
                THEN buildPrompt(<<>>, message) ELSE <<>>,
   aiText |-> "", password |-> "", conn |-> "none", answer |-> NoAnswer]

FreeSlots == {s \in Slots : reqs[s].op = "idle"}

\* The lowest free slot takes the next request.
NextSlot == CHOOSE s \in FreeSlots : \A t \in FreeSlots : s <= t

\* The body of the POST to the text-generation service (none: no call).
\* A body without the temperature parameter.
NoTemperature == -1

NoBody == [inputs |-> <<>>, max_new_tokens |-> 0,
           temperature |-> NoTemperature]

\* err.message of the error a handler catches: the data base driver's text,
\* the text of the rejected call of the text-generation service, or the
\* data base's complaint about a duplicate token.
errMessage(op, db) ==
  IF db = "error" THEN "connect ECONNREFUSED 10.0.0.5:3306"
  ELSE IF op = "chat" THEN "Request failed with status code 503"
  ELSE "Duplicate entry for key 'sessions.token'"

\* The "error" member of the body of a 500, as the parts it is put together
\* from: part_002 and part_000 answer fixed texts, part_001 and server.js
\* answer err.message, after "Erreur modele: " in the chat.
errorBody(step, op, err) ==
  IF deployment = "strict"
    THEN CASE step = "authMiddleware" -> <<"Erreur serveur interne.">>
           [] step # "authMiddleware" /\ op = "register" ->
                <<"Erreur lors de la creation du compte.">>
           [] step # "authMiddleware" /\ op = "login" ->
                <<"Erreur serveur lors de la connexion.">>
           [] step # "authMiddleware" /\ op = "chat" ->
                <<"Le modele d'IA n'a pas pu repondre. Veuillez reessayer.">>
           [] OTHER -> <<"Erreur serveur.">>
  ELSE IF deployment = "strictNoUnique"
    THEN IF step # "authMiddleware" /\ op = "chat"
           THEN <<"Erreur API IA">> ELSE <<"Erreur serveur">>
  ELSE IF op = "chat" THEN <<"Erreur modele: ", err>>
  ELSE <<err>>

\* What a step did: the handler step, the route, the cookie presented (or
\* set), the status of the response it sent (0: none), the identity attached
\* or returned, the insertId returned, the data base's answer, and the
\* credentials in the request body; for a call of the text-generation
\* service, the body sent and the service's answer; for GET /api/memories,
\* the rows answered; for a 500 and for a refused login, the error text of
\* the body; for /api/ask, the result of the faq lookup and the state of its
\* connection.  A 500 names no cookie and no identity.
EventOf(step, op, token, status, user, userId, db, email, password) ==
  [step |-> step, op |-> op,
   token |-> IF status = 500 THEN NoToken ELSE token,
   status |-> status,
   user |-> IF status = 500 THEN NoUser ELSE user,
   userId |-> userId, db |-> db, email |-> email, password |-> password,
   sent |-> NoBody, upstream |-> "none", rows |-> <<>>,
   body |-> IF status = 500 THEN errorBody(step, op, errMessage(op, db))
            ELSE <<>>,
   conn |-> "none", answer |-> NoAnswer]

Event(step, op, token, status, user, userId, db) ==
  EventOf(step, op, token, status, user, userId, db, "", "")

NoEvent == Event("none", "none", NoToken, 0, NoUser, 0, "ok")

\* ------------------------------------------------------------------ Init
\* The state after construction: the tables exist and are empty.
InitTables ==
  /\ now = 0
  /\ users = <<>>
  /\ sessions = <<>>
  /\ memories = <<>>
  /\ memAutoInc = 1
  /\ issued = {}
  /\ loggedOut = {}
  /\ chatStats = <<>>
  /\ userSettings = <<>>
  /\ cleared = {}
  /\ ev = NoEvent

Init ==
  /\ deployment \in {"strict", "memory"}
  /\ rng = "fresh"
  /\ InitTables
  /\ reqs = [s \in 1..MaxInFlight |-> Idle]

\* ------------------------------------------------------------------ clock
Tick ==
  /\ now + TickHours <= MaxTicks * TickHours
  /\ now' = now + TickHours
  /\ ev' = NoEvent
  /\ UNCHANGED <<deployment, rng, chatStats, userSettings, cleared,
                 users, sessions, memories, memAutoInc,
                 issued, loggedOut, reqs>>

\* -------------------------------------------------------------- register
\* INSERT INTO users (name, email, password) VALUES (?, ?, ?)
InsertUser(name, email, stored) ==
  Append(users, [id |-> Len(users) + 1, name |-> name, email |-> email,
                 password |-> stored, plan |-> "basic"])

RegisterCreated == IF IsStrict THEN 201 ELSE 200

\* Variant: users.email without its UNIQUE constraint.
EmailNeverTaken(email) == FALSE

\* Variant: no UNIQUE constraint, the email is compared with the newest row.
EmailTakenByLastRow(email) ==
  users # <<>> /\ users[Len(users)].email = email

\* users.email is UNIQUE: the INSERT fails with ER_DUP_ENTRY.
EmailTaken(email) == UsersByEmail(email) # {}

\* POST /api/register: the status answered and the users table afterwards.
registerHandler(name, email, password, db) ==
  IF name = "" \/ email = "" \/ password = ""
    THEN [status |-> 400, users |-> users, userId |-> 0]
  ELSE IF db = "error"
    THEN [status |-> 500, users |-> users, userId |-> 0]
  ELSE IF EmailTaken(email)
    THEN [status |-> 409, users |-> users, userId |-> 0]
  ELSE [status |-> RegisterCreated,
        users |-> InsertUser(name, email, StoredPassword(password)),
        userId |-> Len(users) + 1]

Register(name, email, password, db) ==
  LET r == registerHandler(name, email, password, db) IN
  /\ deployment # "open"
  /\ users' = r.users
  /\ ev' = EventOf("register", "register", NoToken, r.status, NoUser,
                   r.userId, db, email, password)
  /\ UNCHANGED <<deployment, rng, chatStats, userSettings, cleared,
                 now, sessions, memories, memAutoInc,
                 issued, loggedOut, reqs>>

\* ----------------------------------------------------------------- login
InFlight(op) == {s \in Slots : reqs[s].op = op}

\* Variant: rows[0] of SELECT * is answered as it is.
loginSummaryWholeRow(u) == u

\* The identity summary POST /api/login answers with (part_001 selects no email).
loginSummary(u) ==
  IF IsStrict THEN Summary(u)
  ELSE [id |-> u.id, name |-> u.name, email |-> "", plan |-> u.plan]

\* Variant: the refusal says which of the two checks failed.
invalidCredentialsNaming(cause) ==
  IF cause = "no row" THEN <<"Email inconnu">>
  ELSE <<"Mot de passe incorrect">>

\* The "error" member of the body of login's 401, by the return statement
\* that sends it: the bcrypt servers have one for the empty result and one
\* for the failed comparison, part_001 and server.js have one for the empty
\* result of the statement that checks both.
invalidCredentials(cause) ==
  IF deployment = "strict"
    THEN IF cause = "no row" THEN <<"Identifiants invalides.">>
         ELSE <<"Identifiants invalides.">>
  ELSE IF deployment = "strictNoUnique"
    THEN IF cause = "no row" THEN <<"Identifiants invalides">>
         ELSE <<"Identifiants invalides">>
  ELSE <<"Email ou mot de passe incorrect">>

\* SELECT ... FROM users WHERE email = ? LIMIT 1, then the password check
\* (bcrypt.compare, or "AND password = ?" inside the statement).  server.js
\* answers 200 here: it creates no session.
loginVerify(email, password, db) ==
  IF email = "" \/ password = ""
    THEN [status |-> 400, user |-> NoUser, body |-> <<>>]
  ELSE IF db = "error" THEN [status |-> 500, user |-> NoUser, body |-> <<>>]
  ELSE IF UsersByEmail(email) = {}
    THEN [status |-> 401, user |-> NoUser,
          body |-> invalidCredentials("no row")]
  ELSE LET u == CHOOSE x \in UsersByEmail(email) : TRUE IN
       IF PasswordMatches(password, u.password)
         THEN [status |-> IF deployment = "open" THEN 200 ELSE 0,
               user |-> loginSummary(u), body |-> <<>>]
         ELSE [status |-> 401, user |-> NoUser,
               body |-> invalidCredentials("wrong password")]

\* Room for one more session row and one more token within the bounds.
LoginCapacity ==
  /\ Len(sessions) + Cardinality(InFlight("login")) < MaxSessions
  /\ rng = "fresh" =>
       Cardinality(issued) + Cardinality(InFlight("login")) < MaxTokens

LoginVerify(email, password, db) ==
  LET r == loginVerify(email, password, db) IN
  /\ IF r.status = 0
       THEN /\ FreeSlots # {}
            /\ LoginCapacity
            /\ reqs' = [reqs EXCEPT ![NextSlot] =
                          Request("login", "issue", NoToken, r.user, "")]
       ELSE reqs' = reqs
  /\ ev' = [EventOf("loginVerify", "login", NoToken, r.status, r.user, 0,
                    db, email, password)
              EXCEPT !.body = IF r.status = 401 THEN r.body ELSE @]
  /\ UNCHANGED <<deployment, rng, chatStats, userSettings, cleared,
                 now, users, sessions, memories, memAutoInc,
                 issued, loggedOut>>

\* Variant: a generator that can return a value it returned before.
NewTokensRepeating == Tokens

\* crypto.randomBytes(32).toString("hex") / uuidv4(): the values the generator
\* can return.  Under rng = "fresh" it is the cryptographic ideal: a value no
\* one has seen before (the lowest of them stands for all); under "any"
\* nothing is assumed of it.
NewTokens ==
  IF rng = "fresh"
    THEN {t \in Tokens : /\ t \notin issued
                         /\ \A x \in Tokens \ issued : t[1] <= x[1]}
    ELSE Tokens

\* Variant: the row is stored with the time of issue as its expiry.
InsertSessionNoTTL(token, userId, expiresAt) ==
  Append(sessions, [token |-> token, user_id |-> userId, expires_at |-> now])

\* Variant: a login also pushes back the expiry of the identity's other rows.
InsertSessionRefreshing(token, userId, expiresAt) ==
  Append([i \in DOMAIN sessions |->
            IF sessions[i].user_id = userId
              THEN [sessions[i] EXCEPT !.expires_at = expiresAt]
              ELSE sessions[i]],
         [token |-> token, user_id |-> userId, expires_at |-> expiresAt])

\* Variant: the row is stored without an expiry.
InsertSessionNoExpiry(token, userId, expiresAt) ==
  Append(sessions, [token |-> token, user_id |-> userId, expires_at |-> NoExpiry])

\* INSERT INTO sessions (token, user_id, expires_at) VALUES (?, ?, ?)
InsertSession(token, userId, expiresAt) ==
  Append(sessions, [token |-> token, user_id |-> userId, expires_at |-> expiresAt])

DuplicateToken(token) ==
  TokenIsUnique /\ \E s \in Range(sessions) : s.token = token

\* The rest of POST /api/login: the token, its expiry, the INSERT, the cookie.
loginIssue(user, token, db) ==
  IF db = "error" \/ DuplicateToken(token)
    THEN [status |-> 500, sessions |-> sessions, issued |-> issued,
          token |-> NoToken, user |-> NoUser]
    ELSE [status |-> 200,
          sessions |-> InsertSession(token, user.id, now + TTL),
          issued |-> issued \cup {token},
          token |-> token, user |-> user]

LoginIssue(s, token, db) ==
  /\ reqs[s].op = "login" /\ reqs[s].pc = "issue"
  /\ token \in NewTokens
  /\ LET r == loginIssue(reqs[s].user, token, db) IN
       /\ sessions' = r.sessions
       /\ issued' = r.issued
       /\ ev' = Event("loginIssue", "login", r.token, r.status, r.user, 0, db)
  /\ reqs' = [reqs EXCEPT ![s] = Idle]
  /\ UNCHANGED <<deployment, rng, chatStats, userSettings, cleared,
                 now, users, memories, memAutoInc, loggedOut>>

\* -------------------------------------------------------- authMiddleware
\* The cookies a client can present: none, a made-up value, a token it was
\* given (with no assumption on the generator, any value at all).
ClientTokens ==
  {NoToken, ForgedToken} \cup (IF rng = "fresh" THEN issued ELSE Tokens)

\* Variant: the join does not select u.plan; the identity keeps the default.
AttachedUsersDefaultPlan(token) ==
  {[Summary(UserById(s.user_id)) EXCEPT !.plan = "basic"] :
     s \in ValidRows(token)}

\* rows[0] of the join, for each row the statement may return first.
AttachedUsers(token) == {Summary(UserById(s.user_id)) : s \in ValidRows(token)}

\* Variant: the middleware of part_002 in every server.
authMiddlewareRejecting(token, db) ==
  IF token = NoToken THEN {[status |-> 401, user |-> NoUser]}
  ELSE IF db = "error" THEN {[status |-> 500, user |-> NoUser]}
  ELSE IF ValidRows(token) = {} THEN {[status |-> 401, user |-> NoUser]}
  ELSE {[status |-> 0, user |-> u] : u \in AttachedUsers(token)}

\* The middleware's outcomes: the status it answers itself (0: it calls
\* next()) and the identity it leaves in req.user.
authMiddleware(token, db) ==
  IF IsStrict
    THEN IF token = NoToken THEN {[status |-> 401, user |-> NoUser]}
         ELSE IF db = "error" THEN {[status |-> 500, user |-> NoUser]}
         ELSE IF ValidRows(token) = {} THEN {[status |-> 401, user |-> NoUser]}
         ELSE {[status |-> 0, user |-> u] : u \in AttachedUsers(token)}
    ELSE IF token = NoToken \/ db = "error" \/ ValidRows(token) = {}
           THEN {[status |-> 0, user |-> NoUser]}
           ELSE {[status |-> 0, user |-> u] : u \in AttachedUsers(token)}

\* The routes behind the middleware.
Routes ==
  IF IsStrict THEN {"logout", "me", "chat"}
  ELSE IF deployment = "memory"
    THEN {"logout", "upgrade", "clear-memory", "chat"}
  ELSE {}

\* The synchronous start of the route's handler after next(): the status it
\* answers at once (0: none yet) and the await it stops at.
routeStart(op, token, user, message) ==
  CASE op = "me" -> [status |-> 200, pc |-> "done"]
    [] op = "logout" ->
         IF IsStrict \/ token # NoToken
           THEN [status |-> 0, pc |-> "delete"]
           ELSE [status |-> 200, pc |-> "done"]
    [] op = "upgrade" ->
         IF user = NoUser THEN [status |-> 401, pc |-> "done"]
         ELSE [status |-> 0, pc |-> "update"]
    [] op = "clear-memory" ->
         IF user = NoUser THEN [status |-> 401, pc |-> "done"]
         ELSE [status |-> 0, pc |-> "clear"]
    [] op = "chat" ->
         IF message = "" THEN [status |-> 400, pc |-> "done"]
         ELSE IF IsStrict \/ user = NoUser THEN [status |-> 0, pc |-> "upstream"]
         ELSE [status |-> 0, pc |-> "getMemory"]

\* Rows of memories the chats in flight have still to insert.
Pending(r) ==
  IF r.op # "chat" \/ r.user = NoUser \/ IsStrict THEN 0
  ELSE IF r.pc = "pushAi" THEN 1 ELSE 2

RECURSIVE PendingUpTo(_)
PendingUpTo(n) == IF n = 0 THEN 0 ELSE Pending(reqs[n]) + PendingUpTo(n - 1)

\* Room in memories.id, within the bound, for one more chat turn.
ChatCapacity(op, user) ==
  (op = "chat" /\ user # NoUser /\ ~IsStrict) =>
    memAutoInc - 1 + PendingUpTo(Cardinality(Slots)) + 2 <= MaxMemoryId

authMiddlewareStep(op, token, message, db) ==
  /\ op \in Routes
  /\ token \in ClientTokens
  /\ token = NoToken => db = "ok"
  /\ message # "" => op = "chat"
  /\ \E a \in authMiddleware(token, db) :
       LET r == IF a.status # 0 THEN [status |-> a.status, pc |-> "done"]
                ELSE routeStart(op, token, a.user, message) IN
       /\ IF r.status = 0
            THEN /\ FreeSlots # {}
                 /\ ChatCapacity(op, a.user)
                 /\ reqs' = [reqs EXCEPT ![NextSlot] =
                               Request(op, r.pc, token, a.user, message)]
            ELSE reqs' = reqs
       /\ cleared' = IF op = "chat" /\ r.status = 0
                       THEN cleared \ {a.user.id} ELSE cleared
       /\ ev' = Event("authMiddleware", op, token, r.status, a.user, 0, db)
  /\ UNCHANGED <<deployment, rng, chatStats, userSettings,
                 now, users, memories, memAutoInc,
                 issued, loggedOut>>

\* Variant: a sliding session, each validation pushes the expiry back.
AuthMiddlewareRenewing(op, token, message, db) ==
  /\ authMiddlewareStep(op, token, message, db)
  /\ sessions' = [i \in DOMAIN sessions |->
                    IF sessions[i].token = token
                      THEN [sessions[i] EXCEPT !.expires_at = now + TTL]
                      ELSE sessions[i]]

\* The middleware only reads the sessions table.
AuthMiddleware(op, token, message, db) ==
  /\ authMiddlewareStep(op, token, message, db)
  /\ sessions' = sessions

\* ---------------------------------------------------------------- logout
\* Variant: only sessions past their expiry are deleted.
DeleteExpiredSession(token) ==
  SelectSeq(sessions, LAMBDA s : ~(s.token = token /\ s.expires_at <= now))

\* Variant: DELETE FROM sessions, without its WHERE clause.
DeleteEverySession(token) == <<>>

\* Variant: DELETE FROM sessions WHERE user_id = (the user of the token).
DeleteUserSessions(token) ==
  SelectSeq(sessions,
            LAMBDA s : \A x \in Range(sessions) :
                         x.token = token => x.user_id # s.user_id)

\* DELETE FROM sessions WHERE token = ?
DeleteSession(token) == SelectSeq(sessions, LAMBDA s : s.token # token)

logoutDelete(token, db) ==
  IF db = "error" THEN [status |-> 500, sessions |-> sessions]
  ELSE [status |-> 200, sessions |-> DeleteSession(token)]

LogoutDelete(s, db) ==
  /\ reqs[s].op = "logout" /\ reqs[s].pc = "delete"
  /\ LET r == logoutDelete(reqs[s].token, db) IN
       /\ sessions' = r.sessions
       /\ loggedOut' = IF r.status = 200
                         THEN loggedOut \cup ({reqs[s].token} \cap issued)
                         ELSE loggedOut
       /\ ev' = Event("logoutDelete", "logout", reqs[s].token, r.status,
                      reqs[s].user, 0, db)
  /\ reqs' = [reqs EXCEPT ![s] = Idle]
  /\ UNCHANGED <<deployment, rng, chatStats, userSettings, cleared,
                 now, users, memories, memAutoInc, issued>>

\* --------------------------------------------------------------- upgrade
\* Variant: the statement flips the plan.
TogglePremium(id) ==
  [i \in DOMAIN users |->
     IF users[i].id = id
       THEN [users[i] EXCEPT
               !.plan = IF @ = "premium" THEN "basic" ELSE "premium"]
       ELSE users[i]]

\* UPDATE users SET plan = 'premium' WHERE id = ?
SetPremium(id) ==
  [i \in DOMAIN users |->
     IF users[i].id = id THEN [users[i] EXCEPT !.plan = "premium"] ELSE users[i]]

Upgrade(s, db) ==
  /\ reqs[s].op = "upgrade" /\ reqs[s].pc = "update"
  /\ users' = IF db = "error" THEN users ELSE SetPremium(reqs[s].user.id)
  /\ ev' = Event("upgrade", "upgrade", reqs[s].token,
                 IF db = "error" THEN 500 ELSE 200, reqs[s].user, 0, db)
  /\ reqs' = [reqs EXCEPT ![s] = Idle]
  /\ UNCHANGED <<deployment, rng, chatStats, userSettings, cleared,
                 now, sessions, memories, memAutoInc,
                 issued, loggedOut>>

\* ---------------------------------------------------------- clear-memory
\* DELETE FROM memories WHERE user_id = ?
DeleteMemories(userId) == SelectSeq(memories, LAMBDA m : m.user_id # userId)

ClearMemory(s, db) ==
  /\ reqs[s].op = "clear-memory" /\ reqs[s].pc = "clear"
  /\ memories' = IF db = "error" THEN memories
                 ELSE DeleteMemories(reqs[s].user.id)
  /\ cleared' = IF db = "error" THEN cleared
                ELSE cleared \cup {reqs[s].user.id}
  /\ ev' = Event("clearMemory", "clear-memory", reqs[s].token,
                 IF db = "error" THEN 500 ELSE 200, reqs[s].user, 0, db)
  /\ reqs' = [reqs EXCEPT ![s] = Idle]
  /\ UNCHANGED <<deployment, rng, chatStats, userSettings,
                 now, users, sessions, memAutoInc,
                 issued, loggedOut>>

\* ------------------------------------------------- pushMemory, getMemory
Min(a, b) == IF a <= b THEN a ELSE b

Reverse(seq) == [i \in 1..Len(seq) |-> seq[Len(seq) + 1 - i]]

\* Variant: the insert replaces the rows the user already has.
pushMemoryOverwriting(userId, role, content) ==
  Append(SelectSeq(memories, LAMBDA m : m.user_id # userId),
         [id |-> memAutoInc, user_id |-> userId,
          role |-> role, content |-> content])

\* INSERT INTO memories (user_id, role, content) VALUES (?, ?, ?)
pushMemory(userId, role, content) ==
  Append(memories, [id |-> memAutoInc, user_id |-> userId,
                    role |-> role, content |-> content])

\* WHERE user_id = ? ORDER BY id DESC (the table is kept in id order)
RowsByIdDesc(userId) ==
  Reverse(SelectSeq(memories, LAMBDA m : m.user_id = userId))

\* Variant: the rows as the statement returns them, without rows.reverse().
getMemoryRowsNewestFirst(userId, limit) ==
  LET desc == RowsByIdDesc(userId) IN
  SubSeq(desc, 1, Min(limit, Len(desc)))

\* The rows getMemory selects, in the order it returns them:
\* ... ORDER BY id DESC LIMIT ?, then rows.reverse()
getMemoryRows(userId, limit) ==
  LET desc == RowsByIdDesc(userId) IN
  Reverse(SubSeq(desc, 1, Min(limit, Len(desc))))

\* SELECT role, content, ...: what the caller gets of each row.
getMemory(userId, limit) ==
  LET rows == getMemoryRows(userId, limit) IN
  [i \in 1..Len(rows) |-> [role |-> rows[i].role, content |-> rows[i].content]]

\* ------------------------------------------------------------------ chat
ChatGetMemory(s, db) ==
  /\ reqs[s].op = "chat" /\ reqs[s].pc = "getMemory"
  /\ IF db = "error"
       THEN /\ reqs' = [reqs EXCEPT ![s] = Idle]
            /\ ev' = Event("getMemory", "chat", reqs[s].token, 500,
                           reqs[s].user, 0, db)
       ELSE /\ LET mem == getMemory(reqs[s].user.id, ChatMemoryLimit) IN
                 reqs' = [reqs EXCEPT
                            ![s].pc = "upstream",
                            ![s].mem = mem,
                            ![s].prompt = buildPrompt(mem, reqs[s].message)]
            /\ ev' = Event("getMemory", "chat", NoToken, 0, NoUser, 0, db)
  /\ UNCHANGED <<deployment, rng, chatStats, userSettings, cleared,
                 now, users, sessions, memories, memAutoInc,
                 issued, loggedOut>>

\* Variant: the plan is not looked at.
maxNewTokensFlat(user) == BasicMaxNewTokens

\* max_new_tokens: isPremium ? 512 : 200
maxNewTokens(user) ==
  IF user.plan = "premium" THEN PremiumMaxNewTokens ELSE BasicMaxNewTokens

\* The text taken from the service's answer, by the shape of the answer.
aiTextOf(outcome) ==
  IF IsStrict
    THEN IF outcome = "array" THEN ReplyText
         ELSE "Desole, je n'ai pas pu generer de reponse."
    ELSE IF outcome \in {"array", "object"} THEN ReplyText
         ELSE "Erreur generation"

\* The temperature of the call, in tenths: no chat route puts one in
\* parameters, for any plan.
temperature(user) == NoTemperature

\* { inputs: prompt, parameters: { max_new_tokens } }; part_002 sends
\* { inputs: message } and no parameters.
requestBody(r) ==
  [inputs |-> r.prompt,
   max_new_tokens |-> IF IsStrict THEN 0 ELSE maxNewTokens(r.user),
   temperature |-> temperature(r.user)]

\* Variant: the error of the call is swallowed and the fallback text used.
upstreamNeverThrows(outcome) == FALSE

\* await axios.post(...) throws: the service failed, or the timeout passed.
upstreamThrows(outcome) == outcome = "fail"

ChatUpstream(s, outcome) ==
  /\ reqs[s].op = "chat" /\ reqs[s].pc = "upstream"
  /\ LET sent == requestBody(reqs[s])
         answer ==
           IF upstreamThrows(outcome)
             THEN Event("upstream", "chat", reqs[s].token, 500,
                        reqs[s].user, 0, "ok")
           ELSE IF IsStrict \/ reqs[s].user = NoUser
             THEN Event("upstream", "chat", reqs[s].token, 200,
                        reqs[s].user, 0, "ok")
           ELSE Event("upstream", "chat", NoToken, 0, NoUser, 0, "ok")
     IN /\ ev' = [answer EXCEPT !.sent = sent, !.upstream = outcome]
        /\ reqs' = IF answer.status = 0
                     THEN [reqs EXCEPT ![s].pc = "pushUser",
                                       ![s].aiText = aiTextOf(outcome)]
                     ELSE [reqs EXCEPT ![s] = Idle]
  /\ UNCHANGED <<deployment, rng, chatStats, userSettings, cleared,
                 now, users, sessions, memories, memAutoInc,
                 issued, loggedOut>>

ChatPushUser(s, db) ==
  /\ reqs[s].op = "chat" /\ reqs[s].pc = "pushUser"
  /\ IF db = "error"
       THEN /\ reqs' = [reqs EXCEPT ![s] = Idle]
            /\ ev' = Event("pushUser", "chat", reqs[s].token, 500,
                           reqs[s].user, 0, db)
            /\ UNCHANGED <<memories, memAutoInc>>
       ELSE /\ memories' = pushMemory(reqs[s].user.id, "user", reqs[s].message)
            /\ memAutoInc' = memAutoInc + 1
            /\ reqs' = [reqs EXCEPT ![s].pc = "pushAi"]
            /\ ev' = Event("pushUser", "chat", NoToken, 0, NoUser, 0, db)
  /\ UNCHANGED <<deployment, rng, chatStats, userSettings, cleared,
                 now, users, sessions, issued, loggedOut>>

ChatPushAi(s, db) ==
  /\ reqs[s].op = "chat" /\ reqs[s].pc = "pushAi"
  /\ IF db = "error"
       THEN /\ ev' = Event("pushAi", "chat", reqs[s].token, 500,
                           reqs[s].user, 0, db)
            /\ UNCHANGED <<memories, memAutoInc>>
       ELSE /\ memories' = pushMemory(reqs[s].user.id, "ai", reqs[s].aiText)
            /\ memAutoInc' = memAutoInc + 1
            /\ ev' = Event("pushAi", "chat", reqs[s].token, 200,
                           reqs[s].user, 0, db)
  /\ reqs' = [reqs EXCEPT ![s] = Idle]
  /\ UNCHANGED <<deployment, rng, chatStats, userSettings, cleared,
                 now, users, sessions, issued, loggedOut>>

\* ----------------------------------------------------- groups of steps
AllRoutes == {"logout", "me", "upgrade", "clear-memory", "chat"}

\* The steps of the requests in flight.
Continue ==
  \/ \E s \in Slots, token \in Tokens, db \in DbOutcomes :
       LoginIssue(s, token, db)
  \/ \E s \in Slots, db \in DbOutcomes : LogoutDelete(s, db)

ContinueUpgrade == \E s \in Slots, db \in DbOutcomes : Upgrade(s, db)

ContinueChat ==
  \/ \E s \in Slots, db \in DbOutcomes : ClearMemory(s, db)
  \/ \E s \in Slots, db \in DbOutcomes : ChatGetMemory(s, db)
  \/ \E s \in Slots, outcome \in UpstreamOutcomes : ChatUpstream(s, outcome)
  \/ \E s \in Slots, db \in DbOutcomes : ChatPushUser(s, db)
  \/ \E s \in Slots, db \in DbOutcomes : ChatPushAi(s, db)

\* A client registers or logs in.
Accounts ==
  \/ \E name \in Names \cup {""}, email \in Emails \cup {""},
        password \in Passwords \cup {""}, db \in DbOutcomes :
       Register(name, email, password, db)
  \/ \E email \in Emails \cup {""},
        password \in Passwords \cup WrongPasswords \cup {""},
        db \in DbOutcomes :
       LoginVerify(email, password, db)

\* A client calls one of the routes behind the middleware.
CallWith(routes, tokens, messages) ==
  \E op \in routes, token \in tokens, message \in messages,
     db \in DbOutcomes :
    AuthMiddleware(op, token, message, db)

Call(routes) ==
  CallWith(routes, Tokens \cup {NoToken, ForgedToken}, Messages \cup {""})

\* The session lifecycle: clients register, log in, log out, ask who they
\* are and upgrade; no one chats.
NextAuth ==
  \/ Tick
  \/ Accounts
  \/ Call({"logout", "me", "upgrade"})
  \/ Continue
  \/ ContinueUpgrade

SpecAuth == Init /\ [][NextAuth]_vars

\* The same clients, with nothing assumed of the token generator: whatever
\* keeps tokens apart must then be in the code or in the schema.
InitRng ==
  /\ deployment \in {"strictNoUnique", "memory"}
  /\ rng = "any"
  /\ InitTables
  /\ reqs = [s \in 1..MaxInFlight |-> Idle]

NextRng ==
  \/ Tick
  \/ Accounts
  \/ Call({"logout", "me"})
  \/ Continue

SpecRng == InitRng /\ [][NextRng]_vars

\* The memory window: part_001 after every email has registered and logged
\* in once and all but the first have upgraded, at hour 0; the clients chat
\* and clear their memory.
RegisteredUsers ==
  [i \in DOMAIN EmailList |->
     [id |-> i, name |-> "Ana", email |-> EmailList[i],
      password |-> plainStore("secret"),
      plan |-> IF i = 1 THEN "basic" ELSE "premium"]]

InitChatTables ==
  /\ deployment = "memory"
  /\ rng = "fresh"
  /\ now = 0
  /\ users = RegisteredUsers
  /\ sessions = [i \in 1..Len(RegisteredUsers) |->
                   [token |-> TokenOf(i), user_id |-> i,
                    expires_at |-> TTLMemoryHours]]
  /\ memories = <<>>
  /\ memAutoInc = 1
  /\ issued = {TokenOf(i) : i \in 1..Len(RegisteredUsers)}
  /\ loggedOut = {}
  /\ chatStats = <<>>
  /\ userSettings = <<>>
  /\ cleared = {}
  /\ ev = NoEvent

InitChat ==
  /\ InitChatTables
  /\ reqs = [s \in 1..MaxInFlight |-> Idle]

NextChat ==
  \/ Call({"chat", "clear-memory"})
  \/ ContinueChat

SpecChat == InitChat /\ [][NextChat]_vars

\* The same server with requests handled concurrently: each await of a
\* handler is a point where the steps of another request can run.
InitRace ==
  /\ InitChatTables
  /\ reqs = [s \in 1..MaxConcurrent |-> Idle]

\* The requests of one identity: its chats and its clear-memory.
NextRace ==
  \/ CallWith({"chat", "clear-memory"}, {TokenOf(1)}, Messages \cup {""})
  \/ ContinueChat

SpecRace == InitRace /\ [][NextRace]_vars

\* Chats that wait for the text-generation service, in part_002 and in
\* part_001, after every email has registered and logged in once.
InitLive ==
  /\ deployment \in {"strict", "memory"}
  /\ rng = "fresh"
  /\ now = 0
  /\ users = [i \in DOMAIN RegisteredUsers |->
                [RegisteredUsers[i] EXCEPT
                   !.password = StoredPassword("secret"),
                   !.plan = IF IsStrict THEN "basic" ELSE @]]
  /\ sessions = [i \in 1..Len(RegisteredUsers) |->
                   [token |-> TokenOf(i), user_id |-> i, expires_at |-> TTL]]
  /\ memories = <<>>
  /\ memAutoInc = 1
  /\ issued = {TokenOf(i) : i \in 1..Len(RegisteredUsers)}
  /\ loggedOut = {}
  /\ chatStats = <<>>
  /\ userSettings = <<>>
  /\ cleared = {}
  /\ ev = NoEvent
  /\ reqs = [s \in 1..MaxInFlight |-> Idle]

\* axios.post(url, body, { headers, timeout: 120000 }) in part_002; part_001
\* passes no timeout, and axios has none by default.
hasTimeout == IsStrict

\* The timer of the call runs out: axios rejects.
UpstreamTimeout(s) == hasTimeout /\ ChatUpstream(s, "fail")

NextLive ==
  \/ CallWith({"chat"}, {NoToken, TokenOf(1)}, Messages \cup {""})
  \/ \E s \in Slots, db \in DbOutcomes : ChatGetMemory(s, db)
  \/ \E s \in Slots, outcome \in UpstreamOutcomes : ChatUpstream(s, outcome)
  \/ \E s \in Slots, db \in DbOutcomes : ChatPushUser(s, db)
  \/ \E s \in Slots, db \in DbOutcomes : ChatPushAi(s, db)

\* The data base answers every statement, with rows or with an error; a
\* timer that was set runs out.  Nothing makes the service answer.
FairLive ==
  /\ WF_vars(\E s \in Slots, db \in DbOutcomes : ChatGetMemory(s, db))
  /\ WF_vars(\E s \in Slots, db \in DbOutcomes : ChatPushUser(s, db))
  /\ WF_vars(\E s \in Slots, db \in DbOutcomes : ChatPushAi(s, db))
  /\ WF_vars(\E s \in Slots : UpstreamTimeout(s))

SpecLive == InitLive /\ [][NextLive]_vars /\ FairLive

\* Chats of callers without a valid session, in part_002 and in part_001:
\* clients register and log in, time passes, and whoever presents no
\* cookie, a made-up one or one whose session has expired sends a chat.
GuestChat ==
  \E token \in Tokens \cup {NoToken, ForgedToken},
     message \in Messages \cup {""}, db \in DbOutcomes :
    /\ ValidRows(token) = {}
    /\ AuthMiddleware("chat", token, message, db)

NextGuest ==
  \/ Tick
  \/ Accounts
  \/ \E s \in Slots, token \in Tokens, db \in DbOutcomes :
       LoginIssue(s, token, db)
  \/ GuestChat
  \/ \E s \in Slots, outcome \in UpstreamOutcomes : ChatUpstream(s, outcome)

SpecGuest == Init /\ [][NextGuest]_vars

\* ------------------------------------------------ server.js (lines 1-232)
MemoriesLimit == 100

\* The tables dropOldTables names, in its order (those the model holds).
OldTables == <<"user_settings", "sessions", "memories", "chat_stats", "users">>

\* The tables with FOREIGN KEY (user_id) REFERENCES users(id).
ReferencingTables == {"user_settings", "sessions", "memories", "chat_stats"}

\* DROP TABLE IF EXISTS, one statement per table and each in its own try:
\* the tables that are gone, given the statements that failed.  users goes
\* last and only when no table referencing it is left.
dropOldTables(failed) ==
  LET children == ReferencingTables \ failed IN
  children \cup (IF "users" \notin failed /\ children = ReferencingTables
                   THEN {"users"} ELSE {})

\* The start of a server over the data base as the previous one left it:
\* server.js drops the old tables and creates them again; part_001 and
\* part_002 only create what does not exist.  The requests of the stopped
\* process are gone.
startTables(d, failed) == IF d = "open" THEN dropOldTables(failed) ELSE {}

Deploy(d, failed) ==
  LET gone == startTables(d, failed) IN
  /\ d # "open" => failed = {}
  /\ deployment' = d
  /\ users' = IF "users" \in gone THEN <<>> ELSE users
  /\ userSettings' = IF "user_settings" \in gone THEN <<>> ELSE userSettings
  /\ sessions' = IF "sessions" \in gone THEN <<>> ELSE sessions
  /\ memories' = IF "memories" \in gone THEN <<>> ELSE memories
  /\ memAutoInc' = IF "memories" \in gone THEN 1 ELSE memAutoInc
  /\ chatStats' = IF "chat_stats" \in gone THEN <<>> ELSE chatStats
  /\ reqs' = [s \in Slots |-> Idle]
  /\ ev' = Event("start", "start", NoToken, 0, NoUser, 0,
                 IF failed = {} THEN "ok" ELSE "error")
  /\ UNCHANGED <<rng, now, issued, loggedOut, cleared>>

\* POST /api/register of server.js, up to its first await: INSERT INTO users.
RegisterUser(name, email, password, db) ==
  LET r == registerHandler(name, email, password, db) IN
  /\ deployment = "open"
  /\ users' = r.users
  /\ IF r.status = RegisterCreated
       THEN /\ FreeSlots # {}
            /\ reqs' = [reqs EXCEPT ![NextSlot] =
                          Request("register", "settings", NoToken,
                                  [NoUser EXCEPT !.id = r.userId], "")]
            /\ ev' = EventOf("register", "register", NoToken, 0, NoUser,
                             r.userId, db, email, password)
       ELSE /\ reqs' = reqs
            /\ ev' = EventOf("register", "register", NoToken, r.status,
                             NoUser, 0, db, email, password)
  /\ UNCHANGED <<deployment, rng, chatStats, userSettings, cleared,
                 now, sessions, memories, memAutoInc, issued, loggedOut>>

\* INSERT INTO user_settings (user_id) VALUES (?), then the answer; the catch
\* answers 409 for ER_DUP_ENTRY (user_id is the PRIMARY KEY) and 500 otherwise.
RegisterSettings(s, db) ==
  LET id == reqs[s].user.id
      status == IF db = "error" THEN 500
                ELSE IF id \in Range(userSettings) THEN 409 ELSE 200
  IN
  /\ reqs[s].op = "register" /\ reqs[s].pc = "settings"
  /\ userSettings' = IF status = 200 THEN Append(userSettings, id)
                     ELSE userSettings
  /\ ev' = Event("settings", "register", NoToken, status, NoUser,
                 IF status = 200 THEN id ELSE 0, db)
  /\ reqs' = [reqs EXCEPT ![s] = Idle]
  /\ UNCHANGED <<deployment, rng, chatStats, cleared,
                 now, users, sessions, memories, memAutoInc,
                 issued, loggedOut>>

\* GET /api/memories: SELECT * FROM memories ORDER BY created_at DESC LIMIT 100
\* (rows are created in id order), answered to whoever asks.
selectMemories ==
  LET desc == Reverse(memories) IN SubSeq(desc, 1, Min(MemoriesLimit, Len(desc)))

GetMemories(db) ==
  /\ deployment = "open"
  /\ ev' = [Event("memories", "memories", NoToken,
                  IF db = "error" THEN 500 ELSE 200, NoUser, 0, db)
              EXCEPT !.rows = IF db = "error" THEN <<>> ELSE selectMemories]
  /\ UNCHANGED <<deployment, rng, chatStats, userSettings, cleared,
                 now, users, sessions, memories, memAutoInc,
                 issued, loggedOut, reqs>>

\* The service across versions: part_001 with every email registered and
\* logged in, its clients chatting; then server.js is started over the same
\* data base (and part_001 again), and its clients register, log in and read
\* the memories.
Versions == {"memory", "open"}

NextDeploy ==
  \/ \E d \in Versions, failed \in SUBSET Range(OldTables) : Deploy(d, failed)
  \/ /\ deployment = "memory"
     /\ CallWith({"chat"}, Tokens \cup {NoToken}, {"Hello", ""})
  \/ \E s \in Slots, db \in DbOutcomes : ChatGetMemory(s, db)
  \/ \E s \in Slots, outcome \in UpstreamOutcomes : ChatUpstream(s, outcome)
  \/ \E s \in Slots, db \in DbOutcomes : ChatPushUser(s, db)
  \/ \E s \in Slots, db \in DbOutcomes : ChatPushAi(s, db)
  \/ \E name \in Names \cup {""}, email \in Emails \cup {""},
        password \in Passwords \cup {""}, db \in DbOutcomes :
       RegisterUser(name, email, password, db)
  \/ \E s \in Slots, db \in DbOutcomes : RegisterSettings(s, db)
  \/ /\ deployment = "open"
     /\ \E email \in Emails \cup {""},
           password \in Passwords \cup WrongPasswords \cup {""},
           db \in DbOutcomes :
          LoginVerify(email, password, db)
  \/ \E db \in DbOutcomes : GetMemories(db)

SpecDeploy == InitChat /\ [][NextDeploy]_vars

\* ----------------------------------------- the memory and the other routes
\* part_001 after every email has registered and the first has logged in:
\* the clients chat, clear their memory, log in and out and upgrade.
InitMemory ==
  /\ deployment = "memory"
  /\ rng = "fresh"
  /\ now = 0
  /\ users = [i \in DOMAIN RegisteredUsers |->
                [RegisteredUsers[i] EXCEPT !.plan = "basic"]]
  /\ sessions = <<[token |-> TokenOf(1), user_id |-> 1,
                   expires_at |-> TTLMemoryHours]>>
  /\ memories = <<>>
  /\ memAutoInc = 1
  /\ issued = {TokenOf(1)}
  /\ loggedOut = {}
  /\ chatStats = <<>>
  /\ userSettings = <<>>
  /\ cleared = {}
  /\ ev = NoEvent
  /\ reqs = [s \in 1..MaxInFlight |-> Idle]

NextMemory ==
  \/ \E email \in Emails, db \in DbOutcomes :
       LoginVerify(email, "secret", db)
  \/ CallWith({"chat", "clear-memory", "logout", "upgrade"},
              Tokens \cup {NoToken}, {"Hello", ""})
  \/ Continue
  \/ ContinueUpgrade
  \/ \E s \in Slots, db \in DbOutcomes : ClearMemory(s, db)
  \/ \E s \in Slots, db \in DbOutcomes : ChatGetMemory(s, db)
  \/ \E s \in Slots, outcome \in {"array", "fail"} : ChatUpstream(s, outcome)
  \/ \E s \in Slots, db \in DbOutcomes : ChatPushUser(s, db)
  \/ \E s \in Slots, db \in DbOutcomes : ChatPushAi(s, db)

SpecMemory == InitMemory /\ [][NextMemory]_vars

\* ------------------------------------------------- concurrent registration
\* POST /api/register with other requests running between its awaits: the
\* handler up to its first await (bcrypt.hash in part_002, the INSERT being
\* sent in part_001), then the INSERT as the data base executes it.
RegisterHash(name, email, password) ==
  /\ deployment # "open"
  /\ IF name = "" \/ email = "" \/ password = ""
       THEN /\ reqs' = reqs
            /\ ev' = EventOf("register", "register", NoToken, 400, NoUser, 0,
                             "ok", email, password)
       ELSE /\ FreeSlots # {}
            /\ reqs' = [reqs EXCEPT ![NextSlot] =
                          [Request("register", "insert", NoToken,
                                   [NoUser EXCEPT !.name = name,
                                                  !.email = email], "")
                             EXCEPT !.password = password]]
            /\ ev' = EventOf("hash", "register", NoToken, 0, NoUser, 0,
                             "ok", email, password)
  /\ UNCHANGED <<deployment, rng, chatStats, userSettings, cleared,
                 now, users, sessions, memories, memAutoInc,
                 issued, loggedOut>>

RegisterInsert(s, db) ==
  /\ reqs[s].op = "register" /\ reqs[s].pc = "insert"
  /\ LET r == registerHandler(reqs[s].user.name, reqs[s].user.email,
                              reqs[s].password, db) IN
       /\ users' = r.users
       /\ ev' = EventOf("register", "register", NoToken, r.status, NoUser,
                        r.userId, db, reqs[s].user.email, reqs[s].password)
  /\ reqs' = [reqs EXCEPT ![s] = Idle]
  /\ UNCHANGED <<deployment, rng, chatStats, userSettings, cleared,
                 now, sessions, memories, memAutoInc, issued, loggedOut>>

InitRegister ==
  /\ deployment \in {"strict", "memory"}
  /\ rng = "fresh"
  /\ InitTables
  /\ reqs = [s \in 1..MaxConcurrent |-> Idle]

NextRegister ==
  \/ \E name \in Names \cup {""}, email \in Emails \cup {""},
        password \in Passwords \cup {""} :
       RegisterHash(name, email, password)
  \/ \E s \in Slots, db \in DbOutcomes : RegisterInsert(s, db)

SpecRegister == InitRegister /\ [][NextRegister]_vars

\* ------------------------------------------------------ the ask servers
\* parameters: { max_new_tokens: 250, return_full_text: false } in part_000,
\* { max_new_tokens: 200, temperature: 0.7 } in server.js (the temperature
\* is counted in tenths).
AskMaxNewTokens == 250
FaqMaxNewTokens == 200
FaqTemperature == 7

AskDeployments == {"ask", "faq", "faqNoDsn", "faqNoToken"}
IsFaq == deployment \in {"faq", "faqNoDsn", "faqNoToken"}

\* process.env.MYSQL_DSN and process.env.HF_TOKEN, as truth values.
MYSQL_DSN == deployment \in {"faq", "faqNoToken"}
HF_TOKEN == deployment \in {"faq", "faqNoDsn"}

\* The request body: a question, and a context that may be absent.
Questions == {"Horaires ?"}
NoContext == <<>>
Contexts == {<<"">>, <<"Ouvert de 9h a 17h">>}

\* The answer column of the faq rows: empty, blank, padded.
FaqAnswers == {<<"">>, <<"  ">>, <<" Ouvert ">>}
FaqRows == {<<>>} \cup {<<[answer |-> a]>> : a \in FaqAnswers}

\* What becomes of the rejected promise of an async handler: Express 4
\* leaves it unhandled, Express 5 passes it to the error handler.
RejectionOutcomes == {"unhandled", "forwarded"}

\* String.prototype.trim on the texts that occur.
trim(text) ==
  CASE text = " Ouvert " -> "Ouvert"
    [] text = "  " -> ""
    [] OTHER -> text

\* Variant: the service is asked whatever the lookup returned.
lookupMissedAlways(answer) == TRUE

\* !answer: null, undefined or the empty string.
lookupMissed(answer) == answer = NoAnswer \/ answer = <<"">>

\* answer?.trim() || "(pas de reponse)"
answerBody(answer) ==
  IF answer = NoAnswer \/ trim(answer[1]) = ""
    THEN <<"(pas de reponse)">>
    ELSE <<trim(answer[1])>>

\* The prompt of part_000, as the sequence of its lines.
askPrompt(context, question) ==
  <<"Contexte: " \o context[1], "",
    "En te basant sur le contexte ci-dessus et tes connaissances generales, "
      \o "reponds a la question suivante de maniere claire et concise.",
    "", "Question: " \o question, "", "Reponse:">>

\* The inputs of callHF, as the sequence of its lines.
faqInputs(question) ==
  <<"Reponds en francais, concis et utile.",
    "Question: \"" \o question \o "\"">>

\* The body of the POST to the text-generation service.
askBody(r) ==
  IF IsFaq
    THEN [inputs |-> faqInputs(r.message),
          max_new_tokens |-> FaqMaxNewTokens,
          temperature |-> FaqTemperature]
    ELSE [inputs |-> r.prompt,
          max_new_tokens |-> AskMaxNewTokens,
          temperature |-> NoTemperature]

\* Array.isArray(data) ? data[0]?.generated_text : data.generated_text
generatedText(outcome) ==
  IF outcome \in {"array", "object"} THEN <<ReplyText>> ELSE NoAnswer

\* result[0]?.generated_text || "Je n'ai pas pu generer de reponse."
askAnswer(outcome) ==
  IF outcome = "array" THEN <<ReplyText>>
  ELSE <<"Je n'ai pas pu generer de reponse.">>

AskEvent(step, status, body, conn, answer) ==
  [Event(step, "ask", NoToken, status, NoUser, 0, "ok")
     EXCEPT !.body = body, !.conn = conn, !.answer = answer]

\* POST /api/ask of server.js from the return of queryMySQL to the response
\* or to the fetch of callHF (status 0), which throws at once without HF_TOKEN.
afterLookup(answer) ==
  IF ~lookupMissed(answer)
    THEN [status |-> 200, body |-> answerBody(answer)]
  ELSE IF ~HF_TOKEN
    THEN [status |-> 500, body |-> <<"HF_TOKEN non defini !">>]
  ELSE [status |-> 0, body |-> <<>>]

\* The handler up to its first await.  part_000 reads context.length before
\* its try: without a context the async handler throws a TypeError outside
\* every catch, and its promise is rejected.  server.js returns from
\* queryMySQL at once when MYSQL_DSN is not set.
askStart(question, context, rejection) ==
  IF question = ""
    THEN [status |-> 400, pc |-> "none",
          body |-> IF IsFaq THEN <<"Missing question">>
                   ELSE <<"La question est manquante.">>]
  ELSE IF ~IsFaq
    THEN IF context = NoContext
           THEN IF rejection = "forwarded"
                  THEN [status |-> 500, pc |-> "none",
                        body |-> <<"TypeError: Cannot read properties of "
                                   \o "undefined (reading 'length')">>]
                  ELSE [status |-> 0, pc |-> "unhandled", body |-> <<>>]
           ELSE [status |-> 0, pc |-> "upstream", body |-> <<>>]
  ELSE IF MYSQL_DSN
    THEN [status |-> 0, pc |-> "connect", body |-> <<>>]
  ELSE LET a == afterLookup(NoAnswer) IN
       [status |-> a.status, body |-> a.body,
        pc |-> IF a.status = 0 THEN "upstream" ELSE "none"]

Ask(question, context, rejection) ==
  LET r == askStart(question, context, rejection) IN
  /\ deployment \in AskDeployments
  /\ IF r.pc # "none"
       THEN /\ FreeSlots # {}
            /\ reqs' = [reqs EXCEPT ![NextSlot] =
                          [Request("ask", r.pc, NoToken, NoUser, question)
                             EXCEPT !.prompt =
                               IF r.pc = "upstream" /\ ~IsFaq
                                 THEN askPrompt(context, question)
                                 ELSE <<>>]]
       ELSE reqs' = reqs
  /\ ev' = AskEvent("ask", r.status, r.body, "none", NoAnswer)
  /\ UNCHANGED <<deployment, rng, chatStats, userSettings, cleared,
                 now, users, sessions, memories, memAutoInc,
                 issued, loggedOut>>

\* The steps of a request from the return of queryMySQL on.
askContinue(s, step, conn, answer, db) ==
  LET a == afterLookup(answer) IN
  /\ reqs' = IF a.status = 0
               THEN [reqs EXCEPT ![s].pc = "upstream", ![s].conn = conn,
                                 ![s].answer = answer]
               ELSE [reqs EXCEPT ![s] = Idle]
  /\ ev' = [AskEvent(step, a.status, a.body, conn, answer)
              EXCEPT !.db = db]

\* conn = await mysql.createConnection(...): when it throws, conn stays
\* undefined, the finally has nothing to end and queryMySQL returns null.
AskConnect(s, db) ==
  /\ reqs[s].op = "ask" /\ reqs[s].pc = "connect"
  /\ IF db = "ok"
       THEN /\ reqs' = [reqs EXCEPT ![s].pc = "query", ![s].conn = "open"]
            /\ ev' = AskEvent("askConnect", 0, <<>>, "open", NoAnswer)
       ELSE askContinue(s, "askConnect", "none", NoAnswer, db)
  /\ UNCHANGED <<deployment, rng, chatStats, userSettings, cleared,
                 now, users, sessions, memories, memAutoInc,
                 issued, loggedOut>>

\* SELECT answer FROM faq WHERE question_pattern REGEXP ? LIMIT 1: the
\* answer of the row, or null when there is none or the statement throws;
\* the finally then awaits conn.end().
AskQuery(s, rows, db) ==
  /\ reqs[s].op = "ask" /\ reqs[s].pc = "query"
  /\ LET answer == IF db = "ok" /\ Len(rows) > 0 THEN rows[1].answer
                   ELSE NoAnswer
     IN /\ reqs' = [reqs EXCEPT ![s].pc = "end", ![s].answer = answer]
        /\ ev' = [AskEvent("askQuery", 0, <<>>, "open", answer)
                    EXCEPT !.db = db, !.rows = rows]
  /\ UNCHANGED <<deployment, rng, chatStats, userSettings, cleared,
                 now, users, sessions, memories, memAutoInc,
                 issued, loggedOut>>

\* conn.end() has closed the connection: queryMySQL returns.
AskEnd(s) ==
  /\ reqs[s].op = "ask" /\ reqs[s].pc = "end"
  /\ askContinue(s, "askEnd", "closed", reqs[s].answer, "ok")
  /\ UNCHANGED <<deployment, rng, chatStats, userSettings, cleared,
                 now, users, sessions, memories, memAutoInc,
                 issued, loggedOut>>

\* The fetch of the text-generation service returns: !ok throws into the
\* catch, which answers err.message in server.js and a fixed text in
\* part_000.
AskUpstream(s, outcome) ==
  /\ reqs[s].op = "ask" /\ reqs[s].pc = "upstream"
  /\ LET status == IF upstreamThrows(outcome) THEN 500 ELSE 200
         body ==
           IF IsFaq
             THEN IF upstreamThrows(outcome)
                    THEN <<"HF error: ", "Service Unavailable">>
                    ELSE answerBody(generatedText(outcome))
             ELSE IF upstreamThrows(outcome)
                    THEN <<"Une erreur est survenue lors de la "
                           \o "communication avec l'IA.">>
                    ELSE askAnswer(outcome)
     IN ev' = [AskEvent("askUpstream", status, body, reqs[s].conn,
                        reqs[s].answer)
                 EXCEPT !.sent = askBody(reqs[s]), !.upstream = outcome]
  /\ reqs' = [reqs EXCEPT ![s] = Idle]
  /\ UNCHANGED <<deployment, rng, chatStats, userSettings, cleared,
                 now, users, sessions, memories, memAutoInc,
                 issued, loggedOut>>

\* One of the /api/ask servers, started with or without its environment.
InitAsk ==
  /\ deployment \in AskDeployments
  /\ rng = "fresh"
  /\ InitTables
  /\ reqs = [s \in 1..MaxConcurrent |-> Idle]

NextAsk ==
  \/ \E question \in Questions \cup {""}, context \in Contexts \cup {NoContext},
        rejection \in RejectionOutcomes :
       Ask(question, context, rejection)
  \/ \E s \in Slots, db \in DbOutcomes : AskConnect(s, db)
  \/ \E s \in Slots, rows \in FaqRows, db \in DbOutcomes : AskQuery(s, rows, db)
  \/ \E s \in Slots : AskEnd(s)
  \/ \E s \in Slots, outcome \in UpstreamOutcomes : AskUpstream(s, outcome)

\* For every request, the data base answers every statement and, granted
\* here, the service answers every call.
FairAsk ==
  \A s \in 1..MaxConcurrent :
    /\ WF_vars(\E db \in DbOutcomes : AskConnect(s, db))
    /\ WF_vars(\E rows \in FaqRows, db \in DbOutcomes : AskQuery(s, rows, db))
    /\ WF_vars(AskEnd(s))
    /\ WF_vars(\E outcome \in UpstreamOutcomes : AskUpstream(s, outcome))

SpecAsk == InitAsk /\ [][NextAsk]_vars /\ FairAsk

\* ------------------------------------------------------------- the whole
\* Every step of every server.
Next ==
  \/ Tick
  \/ Accounts
  \/ Call(AllRoutes)
  \/ Continue
  \/ ContinueUpgrade
  \/ ContinueChat
  \/ NextRegister
  \/ NextDeploy
  \/ NextAsk

Spec == (Init \/ InitAsk) /\ [][Next]_vars

\* ======================================================== the properties
\* ------------------------------------------------------------------- C1
\* C1: validating a token attaches an identity exactly when the store holds a
\* session with that token whose expires_at is strictly later than the
\* current time, and the identity is that session's user; in every other
\* case (no session, a session past or at its expiry) no identity is attached
\* and the request is answered 401 (by the middleware in the bcrypt servers,
\* by the guarded routes of the memory server).
C1_ValidateIffUnexpiredSession ==
  LET live == {s \in Range(sessions) :
                 s.token = ev.token /\ s.expires_at > now}
      guarded == IsStrict \/ ev.op \in {"upgrade", "clear-memory"}
  IN ev.step = "authMiddleware" =>
       /\ ev.user # NoUser => live # {} /\ ev.status # 401
       /\ (ev.db = "ok" /\ live # {}) =>
            \E s \in live : /\ ev.user.id = s.user_id
                            /\ ev.user = Summary(UserById(s.user_id))
       /\ (ev.db = "ok" /\ live = {}) =>
            ev.user = NoUser /\ (guarded => ev.status = 401)

\* A token is validated at the very instant its session expires: 401.
C1_Witness ==
  /\ ev.step = "authMiddleware" /\ ev.status = 401 /\ ev.user = NoUser
  /\ \E s \in Range(sessions) : s.token = ev.token /\ s.expires_at = now

\* ------------------------------------------------------------------- C2
\* C2: once a logout of a token has completed, the store holds no session
\* with that token, and every later validation of the token attaches no
\* identity and is answered 401 where the route is guarded, whatever logins
\* and validations happen in between.
C2_NoValidateAfterLogout ==
  /\ \A t \in loggedOut : \A s \in Range(sessions) : s.token # t
  /\ (ev.step = "authMiddleware" /\ ev.token \in loggedOut) =>
       /\ ev.user = NoUser
       /\ (IsStrict \/ ev.op \in {"upgrade", "clear-memory"}) => ev.status = 401

\* A logged-out token is validated while another session is live.
C2_Witness ==
  /\ ev.step = "authMiddleware" /\ ev.token \in loggedOut
  /\ ev.user = NoUser
  /\ \E s \in Range(sessions) : s.expires_at > now

\* ------------------------------------------------------------------- C3
\* C3 as stated: a logout of a token that was already logged out is answered
\* neither 401 nor 500 and leaves the session store as it was.
C3_SecondLogoutNot401 ==
  [][(ev'.op = "logout" /\ ev'.token \in loggedOut) =>
       /\ ev'.status \notin {401, 500}
       /\ sessions' = sessions]_vars

\* C3, amended: a logout of a token that was already logged out never changes
\* the session store; the bcrypt servers answer it 401 in the middleware, the
\* memory server lets it through and answers 200.
C3_SecondLogoutLeavesStore ==
  [][(ev'.op = "logout" /\ ev'.token \in loggedOut) =>
       /\ sessions' = sessions
       /\ ev'.step = "authMiddleware" =>
            ev'.status = (IF IsStrict THEN 401 ELSE 0)
       /\ ev'.step = "logoutDelete" => ev'.status = 200]_vars

\* The second logout of a token is answered 401 while another session lives.
C3_Witness ==
  /\ ev.step = "authMiddleware" /\ ev.op = "logout" /\ ev.status = 401
  /\ ev.token \in loggedOut
  /\ sessions # <<>>

\* ------------------------------------------------------------------- C4
\* C4: a validation, successful or not and however often repeated, leaves
\* every session record and every expires_at as it was.
C4_ValidateLeavesStore ==
  [][ev'.step = "authMiddleware" => sessions' = sessions]_vars

\* A token is validated successfully after time has passed since its issue.
C4_Witness ==
  /\ ev.step = "authMiddleware" /\ ev.user # NoUser
  /\ now > 0
  /\ \E s \in Range(sessions) : s.token = ev.token /\ s.expires_at > now

C6_FailedLoginNoSession ==
  [][ev'.step = "loginVerify" =>
       /\ ev'.status = 401 =>
            sessions' = sessions /\ issued' = issued /\ reqs' = reqs
       /\ ( /\ ev'.db = "ok" /\ ev'.email # "" /\ ev'.password # ""
            /\ \A u \in Range(users) :
                 u.email = ev'.email => u.password.of # ev'.password )
          => ev'.status = 401]_vars

\* A registered identity logs in with a wrong password while a session exists.
C6_Witness ==
  /\ ev.step = "loginVerify" /\ ev.status = 401
  /\ \E u \in Range(users) : u.email = ev.email /\ u.password.of # ev.password
  /\ sessions # <<>>

\* ------------------------------------------------------------------- C7
\* C7: a login with the email and password an identity registered with passes
\* the password check and, the data base answering, is given a token for that
\* identity; validating that token right after the login attaches the same
\* identity with its stored plan, which is "basic" in the bcrypt servers
\* (they have no upgrade) and "basic" until an upgrade in the memory server.
C7_RegisterLoginValidate ==
  [][/\ (ev'.step = "loginVerify" /\ ev'.db = "ok" /\ ev'.password # "") =>
          \A u \in Range(users) :
            (u.email = ev'.email /\ u.password.of = ev'.password) =>
              /\ ev'.status = 0
              /\ \E s \in Slots : /\ reqs'[s].op = "login"
                                  /\ reqs'[s].user.id = u.id
     /\ (ev'.step = "loginIssue" /\ ev'.db = "ok") =>
          /\ ev'.status = 200 /\ ev'.token # NoToken
          /\ \E s \in Range(sessions') :
               s.token = ev'.token /\ s.user_id = ev'.user.id
     /\ ( /\ ev.step = "loginIssue" /\ ev.status = 200
          /\ ev'.step = "authMiddleware" /\ ev'.db = "ok"
          /\ ev'.token = ev.token ) =>
          /\ ev'.status # 401
          /\ ev'.user.id = ev.user.id
          /\ ev'.user.plan = UserById(ev.user.id).plan
          /\ IsStrict => ev'.user.plan = "basic"]_vars

\* GET /api/me answers 200 with plan "basic" for a token issued at this hour.
C7_Witness ==
  /\ IsStrict
  /\ ev.step = "authMiddleware" /\ ev.op = "me" /\ ev.status = 200
  /\ ev.user.plan = "basic"
  /\ \E s \in Range(sessions) :
       s.token = ev.token /\ s.expires_at = now + TTL /\ s.user_id = ev.user.id

\* ------------------------------------------------------------------- C8
\* C8 as stated: a register with an email that is taken is answered 409 and
\* changes no identity; the first register of an email is answered 201 with
\* the new identity's id.
C8_FirstRegistration201 ==
  [][(ev'.step = "register" /\ ev'.db = "ok" /\ ev'.status # 400) =>
       IF \E u \in Range(users) : u.email = ev'.email
         THEN ev'.status = 409 /\ users' = users
         ELSE ev'.status = 201 /\ ev'.userId = Len(users) + 1]_vars

\* C8, amended: a register with an email that is taken is answered 409 and
\* changes no identity; the first register of an email adds one identity with
\* plan "basic", returns its id, and is answered 201 by the bcrypt servers
\* and 200 by the memory server.
C8_RegisterConflictOrCreated ==
  [][(ev'.step = "register" /\ ev'.db = "ok" /\ ev'.status # 400) =>
       IF \E u \in Range(users) : u.email = ev'.email
         THEN ev'.status = 409 /\ users' = users
         ELSE /\ ev'.status = (IF IsStrict THEN 201 ELSE 200)
              /\ ev'.userId = Len(users) + 1
              /\ Len(users') = Len(users) + 1
              /\ SubSeq(users', 1, Len(users)) = users
              /\ users'[Len(users')].id = ev'.userId
              /\ users'[Len(users')].email = ev'.email
              /\ users'[Len(users')].password.of = ev'.password
              /\ users'[Len(users')].plan = "basic"]_vars

\* A register is answered 409 for the email of an existing identity.
C8_Witness ==
  /\ ev.step = "register" /\ ev.status = 409
  /\ Cardinality({u \in Range(users) : u.email = ev.email}) = 1

\* ------------------------------------------------------------------- C9
\* C9: the password field of every identity is a one-way hash of the
\* registered password, never the password itself.
C9_PasswordNeverPlaintext ==
  \A u \in Range(users) :
    u.password.hashed /\ u.password # plainStore(u.password.of)

\* ------------------------------------------------------------------ C10
\* C10: getMemory(userId, limit) returns min(limit, n) of the n entries of
\* that identity, they are the most recent ones, and they come oldest first:
\* the i-th of k returned entries has exactly k - i newer entries.
C10_GetMemoryWindow ==
  \A u \in Range(users) : \A limit \in 1..MaxLimit :
    LET own == {m \in Range(memories) : m.user_id = u.id}
        rows == getMemoryRows(u.id, limit)
        out == getMemory(u.id, limit)
    IN /\ Len(rows) = (IF limit <= Cardinality(own) THEN limit
                       ELSE Cardinality(own))
       /\ \A i \in 1..Len(rows) :
            /\ rows[i] \in own
            /\ Cardinality({m \in own : m.id > rows[i].id}) = Len(rows) - i
       /\ Len(out) = Len(rows)
       /\ \A i \in 1..Len(out) :
            out[i] = [role |-> rows[i].role, content |-> rows[i].content]

\* A chat has read its identity's two entries, oldest first, and an identity
\* has more entries than some limit asks for.
C10_Witness ==
  /\ \E s \in Slots :
       /\ reqs[s].op = "chat" /\ Len(reqs[s].mem) = 2
       /\ reqs[s].mem[1].role = "user" /\ reqs[s].mem[2].role = "ai"
  /\ \E u \in Range(users) : \E limit \in 1..MaxLimit :
       /\ Cardinality({m \in Range(memories) : m.user_id = u.id}) > limit
       /\ Len(getMemoryRows(u.id, limit)) = limit

\* ------------------------------------------------------------------ C11
\* C11: every getMemory of an identity sees the entries of a chat turn as an
\* adjacent (user, ai) pair: each "user" entry it returns is immediately
\* followed by an "ai" entry, also when it runs between the two appends of
\* a turn of another request in flight.
C11_TurnPairContiguous ==
  [][\A s \in Slots :
       (reqs[s].pc = "getMemory" /\ reqs'[s].pc = "upstream") =>
         LET mem == reqs'[s].mem IN
         \A i \in 1..Len(mem) :
           mem[i].role = "user" => i < Len(mem) /\ mem[i + 1].role = "ai"]_vars

\* ------------------------------------------------------------------ C12
\* C12: a chat turn whose call to the text-generation service fails appends
\* no memory entry and increments no usage counter: no step of a chat up to
\* and including the call writes memories or chat_stats, and a failed call
\* is answered 500 and ends the request, so that nothing is appended later.
C12_FailedChatAppendsNothing ==
  [][/\ (ev'.op = "chat" /\ ev'.step \in {"authMiddleware", "getMemory",
                                          "upstream"}) =>
          /\ memories' = memories /\ memAutoInc' = memAutoInc
          /\ chatStats' = chatStats
     /\ (ev'.step = "upstream" /\ ev'.upstream = "fail") =>
          /\ ev'.status = 500
          /\ \A s \in Slots :
               reqs[s].pc = "upstream" =>
                 reqs'[s] = reqs[s] \/ reqs'[s] = Idle]_vars

\* The call fails for a prompt that carries a memory, and the two entries
\* of the earlier turn are all the table holds.
C12_Witness ==
  /\ ev.step = "upstream" /\ ev.upstream = "fail" /\ ev.status = 500
  /\ Len(ev.sent.inputs) > 8
  /\ Len(memories) = 2
  /\ \A s \in Slots : reqs[s] = Idle

\* ------------------------------------------------------------------ C13
\* C13: every chat request is eventually answered, also when the
\* text-generation service never answers.
C13_ChatEventuallyAnswered ==
  \A s \in 1..MaxInFlight :
    (reqs[s].op = "chat") ~> (reqs[s].op = "idle")

\* ------------------------------------------------------------------ C14
\* C14: from the moment a clear-memory of an identity was answered 200 until
\* that identity starts its next chat, getMemory returns the empty sequence
\* for that identity, whatever the limit.
C14_EmptyAfterClear ==
  \A u \in cleared : \A limit \in 1..MaxLimit : getMemory(u, limit) = <<>>

\* ------------------------------------------------------------------ C15
\* C15: the user entry of a chat turn with message m is appended as
\* "user", m; it stays in the table until a clear-memory of its identity;
\* the prompt a later chat of the identity assembles has the system preamble
\* first, then the memory section with the line "user: m" for every such
\* entry, then the new user message, then the response cue; and that prompt
\* is what is sent to the text-generation service.
C15_PromptCarriesPriorTurn ==
  [][/\ \A s \in Slots :
          (reqs[s].pc = "pushUser" /\ reqs'[s].pc = "pushAi") =>
            /\ Len(memories') = Len(memories) + 1
            /\ memories'[Len(memories')].user_id = reqs[s].user.id
            /\ memories'[Len(memories')].role = "user"
            /\ memories'[Len(memories')].content = reqs[s].message
     /\ \A m \in Range(memories) :
          \/ m \in Range(memories')
          \/ ev'.step = "clearMemory" /\ ev'.user.id = m.user_id
     /\ \A s \in Slots :
          (reqs[s].pc = "getMemory" /\ reqs'[s].pc = "upstream") =>
            LET p == reqs'[s].prompt
                n == Len(p)
            IN /\ n >= 8
               /\ p[1] = systemPrefix /\ p[3] = "Memoire:"
               /\ p[n - 2] = "Utilisateur: " \o reqs[s].message
               /\ p[n] = "Reponse:"
               /\ \A m \in Range(memories) :
                    (m.user_id = reqs[s].user.id /\ m.role = "user") =>
                      \E i \in 4..(n - 4) : p[i] = "user: " \o m.content
     /\ \A s \in Slots :
          (reqs[s].pc = "upstream" /\ reqs'[s] # reqs[s]) =>
            ev'.sent.inputs = reqs[s].prompt]_vars

\* The second chat of an identity, "Again", has read the memory: its prompt
\* carries "user: Hello" as the first line of the memory section.
C15_Witness ==
  \E s \in Slots :
    /\ reqs[s].op = "chat" /\ reqs[s].pc = "upstream"
    /\ reqs[s].message = "Again"
    /\ reqs[s].prompt[4] = "user: Hello"
    /\ reqs[s].user.id \notin cleared

\* ------------------------------------------------------------------ C16
\* C16: the max_new_tokens of every call to the text-generation service is
\* decided by the plan of the caller alone: 512 for "premium", 200 for
\* "basic" and for a caller without identity, whatever the memory and the
\* message; 200 < 512.
C16_BudgetByPlan ==
  [][\A s \in Slots :
       (reqs[s].pc = "upstream" /\ reqs'[s] # reqs[s]) =>
         /\ ev'.step = "upstream"
         /\ ev'.sent.max_new_tokens =
              (IF reqs[s].user.plan = "premium" THEN 512 ELSE 200)
         /\ ev'.sent.max_new_tokens \in {200, 512}]_vars

\* A premium identity and a basic one have both chatted, and the call just
\* made asks for 512 tokens.
C16_Witness ==
  /\ ev.step = "upstream" /\ ev.sent.max_new_tokens = 512
  /\ \E m \in Range(memories) : UserById(m.user_id).plan = "basic"
  /\ \E s \in Slots : reqs[s].pc = "pushUser" /\ reqs[s].user.plan = "premium"

\* ------------------------------------------------------------------ C17
\* C17 as stated: a chat from a caller with no valid session (no token, an
\* unknown one, an expired one) is served in every server: it is not
\* answered 401 and it changes no table.
C17_GuestChatServed ==
  [][( /\ ev'.step = "authMiddleware" /\ ev'.op = "chat"
       /\ ev'.db = "ok" /\ ev'.status # 400
       /\ \A x \in Range(sessions) :
            x.token = ev'.token => x.expires_at <= now ) =>
       /\ ev'.status # 401
       /\ users' = users /\ sessions' = sessions /\ memories' = memories]_vars

\* C17, amended: a chat from a caller with no valid session changes no
\* table in any server.  The memory server serves it: the prompt has an
\* empty memory section, the call asks for 200 tokens, and the answer is 200
\* (500 if the call fails).  The bcrypt servers answer it 401 in the
\* middleware and call nothing.
C17_GuestChatByServer ==
  [][/\ ( /\ ev'.step = "authMiddleware" /\ ev'.op = "chat"
          /\ ev'.db = "ok" /\ ev'.status # 400
          /\ \A x \in Range(sessions) :
               x.token = ev'.token => x.expires_at <= now ) =>
          IF IsStrict
            THEN ev'.status = 401 /\ reqs' = reqs
            ELSE /\ ev'.status = 0 /\ ev'.user = NoUser
                 /\ \E s \in Slots :
                      /\ reqs[s] = Idle
                      /\ reqs'[s].op = "chat" /\ reqs'[s].pc = "upstream"
                      /\ reqs'[s].user = NoUser
                      /\ reqs'[s].prompt =
                           <<systemPrefix, "", "Memoire:", "", "",
                             "Utilisateur: " \o reqs'[s].message, "",
                             "Reponse:">>
     /\ \A s \in Slots :
          ( /\ reqs[s].op = "chat" /\ reqs[s].user = NoUser
            /\ reqs'[s] # reqs[s] ) =>
            /\ ev'.step = "upstream"
            /\ ev'.sent.inputs = reqs[s].prompt
            /\ ev'.sent.max_new_tokens = 200
            /\ ev'.status = (IF ev'.upstream = "fail" THEN 500 ELSE 200)
            /\ reqs'[s] = Idle
     /\ ( \/ ev'.step = "authMiddleware" /\ ev'.op = "chat"
          \/ \E s \in Slots : /\ reqs[s].op = "chat" /\ reqs[s].user = NoUser
                              /\ reqs'[s] # reqs[s] ) =>
          /\ users' = users /\ sessions' = sessions
          /\ memories' = memories /\ memAutoInc' = memAutoInc
          /\ chatStats' = chatStats]_vars

\* The memory server has answered 200 to a chat that presented the token of
\* an expired session.
C17_Witness ==
  /\ ~IsStrict
  /\ ev.step = "upstream" /\ ev.status = 200 /\ ev.user = NoUser
  /\ ev.sent.max_new_tokens = 200
  /\ \E x \in Range(sessions) : x.token = ev.token /\ x.expires_at <= now

\* ------------------------------------------------------------------ C18
\* C18: every chat turn of an identity that completes (its reply is stored
\* and answered 200) leaves a chat_stats row for the identity whose
\* messages_sent is one more than before the turn.
C18_TurnIncrementsUsage ==
  [][(ev'.step = "pushAi" /\ ev'.status = 200) =>
       LET before == {r \in Range(chatStats) : r.user_id = ev'.user.id}
           after == {r \in Range(chatStats') : r.user_id = ev'.user.id}
       IN \E a \in after :
            \/ before = {} /\ a.messages_sent = 1
            \/ \E b \in before : a.messages_sent = b.messages_sent + 1]_vars

C20_LogoutWithoutSession401 ==
  [][/\ ( /\ ev'.op = "logout" /\ ev'.step = "authMiddleware"
          /\ ev'.db = "ok"
          /\ \A x \in Range(sessions) :
               x.token = ev'.token => x.expires_at <= now ) =>
          ev'.status = 401 /\ reqs' = reqs /\ sessions' = sessions
     /\ \A s \in Slots :
          ( /\ reqs[s].op = "logout" /\ reqs[s].user = NoUser
            /\ reqs'[s] # reqs[s] ) => sessions' = sessions]_vars

\* ------------------------------------------------------------------ C21
\* C21: no response carries the stored password of an identity: the identity
\* a step attaches to a request or returns (login's summary, the req.user
\* that /me answers with) has the fields id, name, email and plan and no
\* other, and so has every identity held by a request in flight.
C21_NoPasswordInResponse ==
  /\ DOMAIN ev.user = {"id", "name", "email", "plan"}
  /\ \A s \in Slots : DOMAIN reqs[s].user = {"id", "name", "email", "plan"}

\* A login is answered 200 with the summary of an identity whose row holds a
\* password, and that identity is later attached by the middleware for /me.
C21_Witness ==
  /\ ev.op = "me" /\ ev.status = 200
  /\ \E u \in Range(users) :
       /\ u.id = ev.user.id
       /\ "password" \in DOMAIN u
       /\ \E x \in Range(sessions) : x.user_id = u.id /\ x.token \in issued

\* ------------------------------------------------------------------ C22
\* C22: an operation that answers with an error leaves the tables as they
\* were when it began: when a chat turn of an identity is answered 500, the
\* identity's memory is the memory the turn read at its start (no user entry
\* is left behind by a turn whose second append failed), and the step that
\* answers an error writes nothing itself.
C22_ErrorLeavesNoPartialState ==
  [][/\ ev'.status >= 400 =>
          /\ users' = users /\ sessions' = sessions /\ memories' = memories
     /\ \A s \in Slots :
          (/\ reqs[s].op = "chat" /\ reqs[s].user # NoUser
           /\ reqs[s].pc \in {"upstream", "pushUser", "pushAi"}
           /\ reqs'[s].op = "idle" /\ ev'.status = 500)
          => getMemory(reqs[s].user.id, ChatMemoryLimit)' = reqs[s].mem]_vars

\* ------------------------------------------------------------------ C23
\* C23: Expired and Revoked are terminal: once an issued token would fail
\* validation (no session row with that token and a later expires_at), no
\* step (a login of the same or of another identity, a logout, an upgrade,
\* the passing of time) makes it pass again, and a validation of such a
\* token attaches no identity.
C23_DeadTokenStaysDead ==
  [][\A t \in issued :
       ValidRows(t) = {} =>
         /\ ValidRows(t)' = {}
         /\ (ev'.step = "authMiddleware" /\ ev'.token = t) => ev'.user = NoUser
    ]_vars

\* The validation of an issued token is refused while another issued token,
\* of a later login, is valid.
C23_Witness ==
  /\ ev.step = "authMiddleware" /\ ev.status = 401
  /\ ev.token \in issued
  /\ ValidRows(ev.token) = {}
  /\ \E t \in issued : ValidRows(t) # {}

\* ------------------------------------------------------------------ C24
\* C24: the start of a server process destroys no record: every row of
\* users, sessions and memories that exists before the start exists after
\* it, and a token that was valid before the start is valid after it.
C24_StartKeepsRecords ==
  [][ev'.step = "start" =>
       /\ Range(users) \subseteq Range(users')
       /\ Range(sessions) \subseteq Range(sessions')
       /\ Range(memories) \subseteq Range(memories')
       /\ \A t \in issued : ValidRows(t) # {} => ValidRows(t)' # {}
    ]_vars

\* ------------------------------------------------------------------ C25
\* C25: a logout answered 200 for token t removes the session rows whose
\* token is t and no other: every other row, of the same identity or of
\* another, is still in the table with its token, user_id and expires_at, no
\* row appears, and every other token that was valid is still valid with the
\* same rows.
C25_LogoutRemovesOnlyItsSession ==
  [][(ev'.step = "logoutDelete" /\ ev'.status = 200) =>
       LET t == ev'.token IN
       /\ \A x \in Range(sessions') : x.token # t
       /\ sessions' = SelectSeq(sessions, LAMBDA x : x.token # t)
       /\ \A x \in Range(sessions) : x.token # t => x \in Range(sessions')
       /\ \A u \in Tokens \ {t} : ValidRows(u)' = ValidRows(u)
       /\ users' = users
    ]_vars

\* An identity holds two sessions, logs out of one, and the other is still
\* valid.
C25_Witness ==
  /\ ev.step = "logoutDelete" /\ ev.status = 200
  /\ ev.token \in issued
  /\ \E t \in issued \ {ev.token} :
       /\ ValidRows(t) # {}
       /\ \E x \in ValidRows(t) : x.user_id = ev.user.id

\* ------------------------------------------------------------------ C26
\* C26: memory is append-only.  For every identity, a step that is not the
\* DELETE of that identity's own clear-memory leaves its rows as a prefix of
\* its rows afterwards; the two inserts of a chat turn each extend the rows
\* of the turn's identity by exactly one entry (the user entry, then the ai
\* entry, after which the turn is answered 200) and leave every other
\* identity's rows as they are; every other step (login, logout, validate,
\* upgrade, the other steps of a chat) leaves every identity's rows unchanged.
C26_MemoryAppendOnly ==
  [][\A u \in {users[i].id : i \in DOMAIN users} :
       LET before == SelectSeq(memories, LAMBDA m : m.user_id = u)
           after == SelectSeq(memories', LAMBDA m : m.user_id = u)
           actor == {reqs[s].user.id : s \in {x \in Slots : reqs'[x] # reqs[x]}}
           row(role, content) ==
             [id |-> memAutoInc, user_id |-> u, role |-> role,
              content |-> content]
       IN
       /\ ~(ev'.step = "clearMemory" /\ u \in actor) =>
            /\ Len(before) <= Len(after)
            /\ SubSeq(after, 1, Len(before)) = before
       /\ (ev'.step = "pushUser" /\ ev'.status = 0 /\ u \in actor) =>
            \E s \in Slots :
              /\ reqs'[s] # reqs[s]
              /\ after = Append(before, row("user", reqs[s].message))
       /\ (ev'.step = "pushAi" /\ ev'.status = 200 /\ u \in actor) =>
            \E s \in Slots :
              /\ reqs'[s] # reqs[s]
              /\ after = Append(before, row("ai", reqs[s].aiText))
              /\ reqs[s].aiText \in {ReplyText, "Erreur generation"}
              /\ ev'.user.id = u
       /\ (ev'.step \notin {"pushUser", "pushAi", "clearMemory"}
             \/ u \notin actor \/ ev'.status = 500) =>
            after = before
    ]_vars

\* An identity completes a chat turn while both identities have entries, the
\* other identity having cleared its memory and chatted again before.
C26_Witness ==
  /\ ev.step = "pushAi" /\ ev.status = 200
  /\ \E m \in Range(memories) : m.user_id = ev.user.id /\ m.role = "user"
  /\ \E m \in Range(memories) : m.user_id # ev.user.id
  /\ Len(memories) < memAutoInc - 1
  /\ loggedOut # {}

\* ------------------------------------------------------------------ C27
\* C27: no two rows of users hold the same email, whatever the order in
\* which the steps of concurrent registrations run: an INSERT the data base
\* executes creates the identity when no row holds the email and is answered
\* 409, creating nothing, when one does; so of two registrations of one email
\* in flight together, the first to insert succeeds and the other gets 409.
C27_EmailUniqueUnderConcurrency ==
  [][/\ \A i, j \in DOMAIN users' :
          users'[i].email = users'[j].email => i = j
     /\ (ev'.step = "register" /\ ev'.db = "ok" /\ ev'.status # 400) =>
          IF UsersByEmail(ev'.email) = {}
            THEN /\ ev'.status = RegisterCreated
                 /\ Cardinality({u \in Range(users') :
                                   u.email = ev'.email}) = 1
                 /\ Len(users') = Len(users) + 1
            ELSE /\ ev'.status = 409
                 /\ users' = users
     /\ (ev'.step = "register" /\ ev'.db = "error") =>
          ev'.status = 500 /\ users' = users
    ]_vars

\* Two registrations of one email are in flight together; the INSERT of one
\* has just created the identity and the other has still to run.
C27_Witness ==
  /\ ev.step = "register" /\ ev.status = RegisterCreated
  /\ Cardinality(UsersByEmail(ev.email)) = 1
  /\ \E s \in Slots :
       /\ reqs[s].op = "register" /\ reqs[s].pc = "insert"
       /\ reqs[s].user.email = ev.email

\* ------------------------------------------------------------------ C28
\* C28: every session row a login creates has expires_at = (the time of the
\* login) + TTL, with TTL one constant of the server (24 hours in the bcrypt
\* servers, 7 days in the plaintext one); no step changes the expires_at of
\* a row that exists; and no row without an expiry is created, so every
\* session stops validating once the clock reaches its expires_at.
C28_ExpiryIsIssuePlusTTL ==
  [][LET ttl == IF deployment = "memory" THEN TTLMemoryHours
                ELSE TTLStrictHours
         created == {i \in DOMAIN sessions' :
                       \A x \in Range(sessions) : x.token # sessions'[i].token}
     IN
     /\ \A i \in created :
          /\ ev'.step = "loginIssue" /\ ev'.status = 200
          /\ sessions'[i].token = ev'.token
          /\ sessions'[i].expires_at = now + ttl
     /\ \A x \in Range(sessions), y \in Range(sessions') :
          x.token = y.token => y.expires_at = x.expires_at
     /\ \A y \in Range(sessions') :
          /\ y.expires_at # NoExpiry
          /\ y.expires_at <= now' => ValidRows(y.token)' = {}
    ]_vars

\* Two sessions created at different times are in the table, each with its
\* own expiry; the older one validates no more.
C28_Witness ==
  /\ ev.step = "loginIssue" /\ ev.status = 200
  /\ now > 0
  /\ \E x, y \in Range(sessions) :
       /\ y.token = ev.token
       /\ y.expires_at = now + TTL
       /\ x.expires_at < y.expires_at
       /\ ValidRows(x.token) = {}

\* ------------------------------------------------------------------ C29
\* C29: memory is isolated per identity: the entries getMemory hands to the
\* chat of identity A are rows of A and of no one else, the prompt of a
\* caller without identity has an empty memory section, a clear-memory of A
\* leaves the rows of every other identity as they are, and a memory read
\* answered to a caller without identity contains no entry.
C29_MemoryIsolated ==
  [][/\ \A s \in Slots :
          (ev'.step = "getMemory" /\ ev'.status = 0 /\ reqs'[s] # reqs[s]) =>
            LET own == SelectSeq(memories,
                                 LAMBDA m : m.user_id = reqs[s].user.id)
                mem == reqs'[s].mem
            IN /\ Len(mem) <= Len(own)
               /\ \A i \in DOMAIN mem :
                    LET m == own[Len(own) - Len(mem) + i] IN
                    mem[i] = [role |-> m.role, content |-> m.content]
     /\ \A s \in Slots :
          (ev'.step = "upstream" /\ reqs'[s] # reqs[s]
             /\ reqs[s].user = NoUser /\ ~IsStrict) =>
            ev'.sent.inputs = buildPrompt(<<>>, reqs[s].message)
     /\ \A s \in Slots :
          (ev'.step = "clearMemory" /\ reqs'[s] # reqs[s]) =>
            SelectSeq(memories', LAMBDA m : m.user_id # reqs[s].user.id)
              = SelectSeq(memories, LAMBDA m : m.user_id # reqs[s].user.id)
     /\ ev'.step = "memories" => ev'.rows = <<>>
    ]_vars

\* ------------------------------------------------------------------ C30
\* C30: a storage or upstream failure is reported as a generic failure: the
\* body of a 500 answered by register, login, logout, upgrade, clear-memory
\* or chat is a fixed message and does not contain the text of the error
\* that was caught.
C30_GenericFailureBody ==
  (ev.status = 500
     /\ ev.op \in {"register", "login", "logout", "upgrade",
                   "clear-memory", "chat"}) =>
    /\ ev.body # <<>>
    /\ errMessage(ev.op, ev.db) \notin Range(ev.body)

\* ------------------------------------------------------------------ C31
\* C31: premium gets a lower temperature than basic: the body of the call
\* for a chat of a premium identity carries a temperature, and it is
\* strictly lower than the one the same chat (same memory, same message)
\* would be sent with for a basic identity.
C31_PremiumLowerTemperature ==
  \A s \in Slots :
    (/\ reqs[s].op = "chat" /\ reqs[s].pc = "upstream"
     /\ reqs[s].user.plan = "premium") =>
      LET premium == requestBody(reqs[s])
          basic == requestBody([reqs[s] EXCEPT !.user.plan = "basic"])
      IN /\ premium.temperature # NoTemperature
         /\ premium.temperature < basic.temperature

\* ------------------------------------------------------------------ C32
\* C32: the plan of a chat is the identity's plan when the request is
\* validated: the identity the middleware attaches to a chat carries the
\* plan the users table holds at that step, the request keeps that identity
\* through its steps, and the call to the service is sent with the budget
\* of that plan; so a chat validated after an upgrade has been answered is
\* sent with the premium budget, on a session that existed before.
C32_PlanAtValidation ==
  [][/\ (ev'.step = "authMiddleware" /\ ev'.op = "chat" /\ ev'.status = 0
           /\ ev'.user # NoUser) =>
          /\ ev'.user.plan = UserById(ev'.user.id).plan
          /\ \E s \in Slots : reqs'[s] # reqs[s] /\ reqs'[s].user = ev'.user
     /\ \A s \in Slots :
          (reqs[s].op = "chat" /\ reqs'[s].op = "chat") =>
            reqs'[s].user = reqs[s].user
     /\ \A s \in Slots :
          (ev'.step = "upstream" /\ reqs'[s] # reqs[s]
             /\ reqs[s].user.plan = "premium") =>
            ev'.sent.max_new_tokens = PremiumMaxNewTokens
     /\ \A i \in DOMAIN users :
          users[i].plan = "premium" => users'[i].plan = "premium"
    ]_vars

\* The first identity, registered as basic and logged in once, has upgraded,
\* and a chat on that same session is sent with the premium budget.
C32_Witness ==
  /\ ev.step = "upstream"
  /\ ev.sent.max_new_tokens = PremiumMaxNewTokens
  /\ issued = {TokenOf(1)}
  /\ users[1].plan = "premium"

\* ------------------------------------------------------------------ C33
\* C33: login does not tell an unregistered email from a wrong password.
\* Whenever a login is answered, a login with an email no identity has and a
\* login with a registered email and a password that is not the registered
\* one would be given the same response, status 401 with the same body and
\* no identity; and a login that is answered 401 is answered that response,
\* adds no session and starts no token issue.
C33_LoginDoesNotRevealEmail ==
  [][ev'.step = "loginVerify" =>
       /\ \A e1, e2 \in Emails, p1, p2 \in Passwords \cup WrongPasswords :
            ( /\ UsersByEmail(e1) = {}
              /\ UsersByEmail(e2) # {}
              /\ \A u \in UsersByEmail(e2) : u.password.of # p2 )
            => /\ loginVerify(e1, p1, "ok").status = 401
               /\ loginVerify(e1, p1, "ok") = loginVerify(e2, p2, "ok")
       /\ ev'.status = 401 =>
            /\ ev'.body = loginVerify(ev'.email, ev'.password, "ok").body
            /\ ev'.body # <<>>
            /\ ev'.user = NoUser /\ ev'.token = NoToken
            /\ sessions' = sessions /\ issued' = issued
            /\ reqs' = reqs]_vars

\* A login with an email no one registered is refused while another email is
\* registered and holds a session.
C33_Witness ==
  /\ ev.step = "loginVerify" /\ ev.status = 401
  /\ ev.email # "" /\ UsersByEmail(ev.email) = {}
  /\ users # <<>> /\ sessions # <<>>

\* ------------------------------------------------------------------ C34
\* C34: every request that passes its handler's required-field check is
\* eventually answered: a POST /api/ask that was accepted, with or without
\* a context field, does not stay in flight for ever.
C34_EveryRequestAnswered ==
  \A s \in 1..MaxConcurrent : (reqs[s].op = "ask") ~> (reqs[s].op = "idle")

\* ------------------------------------------------------------------ C35
\* C35 as stated: in POST /api/ask of server.js the text-generation service
\* is called exactly when the faq lookup produced no answer; an answer of
\* the lookup is returned as it is (trimmed) with status 200; without one
\* the response is 200 with the service's text, or "(pas de reponse)" when
\* that is empty; and no response is sent while the lookup's connection is
\* open.
C35_UpstreamIffNoAnswer ==
  [][(IsFaq /\ ev'.op = "ask" /\ ev'.status \notin {0, 400}) =>
       LET missed == ev'.answer = NoAnswer \/ ev'.answer = <<"">>
           called == ev'.sent # NoBody
       IN /\ called <=> missed
          /\ ~missed => /\ ev'.status = 200
                        /\ ev'.body = <<trim(ev'.answer[1])>>
          /\ missed => /\ ev'.status = 200
                       /\ ev'.body = IF ev'.upstream \in {"array", "object"}
                                       THEN <<ReplyText>>
                                       ELSE <<"(pas de reponse)">>
          /\ ev'.conn # "open"]_vars

\* C35, amended: the lookup returns the answer column of the row it finds
\* and null when it finds none, when the statement or the connection fails
\* and when MYSQL_DSN is not set (then no connection is opened).  The
\* service is called exactly when the lookup's result is null or empty and
\* HF_TOKEN is set.  A result that is not empty is answered 200 without a
\* call, trimmed, or as "(pas de reponse)" when it is blank.  Without a
\* result and without HF_TOKEN the answer is 500 and no call is made.  After
\* a call the answer is 500 when the service fails, and otherwise 200 with
\* its text or "(pas de reponse)" when it has none.  No response is sent and
\* no call is made while the lookup's connection is open: an opened
\* connection has been ended, on every path.
C35_UpstreamIffMissedAndConfigured ==
  [][(IsFaq /\ ev'.op = "ask") =>
       LET missed == ev'.answer = NoAnswer \/ ev'.answer = <<"">>
           called == ev'.sent # NoBody
       IN /\ ev'.step = "askQuery" =>
               ev'.answer = IF ev'.db = "ok" /\ ev'.rows # <<>>
                              THEN ev'.rows[1].answer ELSE NoAnswer
          /\ (ev'.step \in {"ask", "askConnect"} \/ ~MYSQL_DSN) =>
               /\ ev'.answer = NoAnswer
               /\ ev'.conn = IF ev'.step = "askConnect" /\ ev'.db = "ok"
                               THEN "open" ELSE "none"
          /\ ev'.status \notin {0, 400} =>
               /\ called <=> (missed /\ HF_TOKEN)
               /\ ~missed =>
                    /\ ev'.status = 200
                    /\ ev'.body = IF ev'.answer = <<"  ">>
                                    THEN <<"(pas de reponse)">>
                                    ELSE <<trim(ev'.answer[1])>>
               /\ (missed /\ ~HF_TOKEN) => ev'.status = 500
               /\ (called /\ ev'.upstream = "fail") => ev'.status = 500
               /\ (called /\ ev'.upstream # "fail") =>
                    /\ ev'.status = 200
                    /\ ev'.body = IF ev'.upstream \in {"array", "object"}
                                    THEN <<ReplyText>>
                                    ELSE <<"(pas de reponse)">>
               /\ ev'.conn # "open"
          /\ \A s \in Slots :
               (reqs'[s].op = "ask" /\ reqs'[s].pc = "upstream") =>
                 reqs'[s].conn # "open"
          /\ \A s \in Slots :
               (reqs[s].conn # "none" /\ reqs'[s].op = "idle") =>
                 ev'.conn = "closed"]_vars

\* The lookup found a row with an answer, ended its connection, and the
\* answer was returned without a call of the service.
C35_Witness ==
  /\ deployment = "faq"
  /\ ev.step = "askEnd" /\ ev.status = 200
  /\ ev.answer = <<" Ouvert ">> /\ ev.body = <<"Ouvert">>
  /\ ev.sent = NoBody /\ ev.conn = "closed"

====
